---- MODULE Spec2Model ----
(***************************************************************************)
(* Progressive rollout controller of AI_Automated_DevOps.                  *)
(*                                                                         *)
(*   - CanaryController.manage_canary  (src/src/deployment/                *)
(*     canary_controller.py): the staged canary state machine.             *)
(*   - CanaryAnalyzer.analyze_canary   (src/src/deployment/                *)
(*     canary_analyzer.py): metric collection, comparison and decision.    *)
(*                                                                         *)
(* The helpers that manage_canary calls but the repository does not define *)
(* (_initialize_canary, _update_traffic_distribution,                      *)
(* _monitor_canary_stage, _handle_canary_failure, _handle_canary_error,    *)
(* _update_canary_status, _finalize_canary, the decision inside            *)
(* _analyze_canary_metrics) are modelled from the design document; the     *)
(* control flow between them is the one of the source.                     *)
(***************************************************************************)
EXTENDS Integers, Naturals, Sequences, FiniteSets, TLC

\* Longest configured stage list explored (deployment_data['canary']['stages']).
MaxStages == 3

\* Cap on the traffic updates counted for one stage.
MaxCalls == 2

StageIds == 1..MaxStages

Severities == {"none", "low", "medium", "high", "critical"}

AbortSeverities == {"high", "critical"}

RolloutStates ==
    {"Pending", "InProgress", "Promoting", "Promoted",
     "RollingBack", "RolledBack", "Failed"}

Terminal == {"Promoted", "RolledBack", "Failed"}

\* The metric categories _collect_baseline_metrics fills, in collection order.
Categories == <<"performance", "resources", "errors">>

VARIABLES
    \* ---- CanaryController.manage_canary ----
    nStages,          \* len(deployment_data['canary']['stages'])
    pc,               \* position of the manage_canary coroutine
    state,            \* Rollout.state
    stageIdx,         \* position of the for loop: the stage being executed
    trafficN,         \* per stage: traffic updates issued
    monitorN,         \* per stage: monitoring runs started
    decisionN,        \* per stage: Decisions produced by _analyze_canary_metrics
    verifiedN,        \* per stage: traffic updates read back and found applied
    decision,         \* per stage: "none" | "pos" | "neg"
    anomaly,          \* per stage: worst anomaly severity seen while monitoring
    verdict,          \* what the decision engine says of the stage's metrics
    stage_result,     \* result of _execute_canary_stage
    analysis,         \* result of _analyze_canary_metrics
    history,          \* stage results merged by _update_canary_status
    abortReason,      \* which result was handed to _handle_canary_failure
    cancelRequested,  \* an external cancel request is pending
    \* ---- CanaryAnalyzer.analyze_canary ----
    apc,              \* position of the analyze_canary coroutine
    baseFailAt,       \* category whose baseline query fails ("none": no failure)
    canFailAt,        \* category whose canary query fails
    baseline_metrics, \* categories present in the baseline dict
    canary_metrics,   \* categories present in the canary dict
    computed,         \* category comparisons evaluated so far
    scoreOk,          \* overall_score >= promotion_threshold for these metrics
    response,         \* what analyze_canary returned
    \* ---- RollbackHandler.handle_rollback ----
    rpc,              \* position of the handle_rollback coroutine
    planLen,          \* len(rollback_plan['rollback_steps'])
    stepIdx,          \* position of the for loop of _execute_rollback
    stepOutcome,      \* how the step being executed ended
    rlog,             \* calls made to the cluster, in order
    results,          \* the results list of _execute_rollback
    rollback_result,  \* what _execute_rollback returned
    verification,     \* what _verify_rollback returned
    rstatus,          \* 'status' of what handle_rollback returned
    \* ---- AIAnomalyDetector.detect_anomalies ----
    dconfig,          \* config: training_period_days, minimum_datapoints
    dhistory,         \* self.history: per metric, the window of points
    dnow,             \* datetime.now() of the latest call
    dcalls,           \* calls of detect_anomalies made so far
    lastMetrics,      \* the metrics dict of the latest call
    lastChecked,      \* metrics the latest call ran the model on
    lastEvicted,      \* per metric: points the latest call removed
    lastRaised,       \* the latest call raised
    lastAnomalies,    \* the list the latest call returned
    lastFit,          \* per metric: the values the model was fitted on
    \* ---- CanaryAnalyzer: comparison and promotion decision ----
    spc,              \* position inside analyze_canary after collection
    sbase,            \* baseline value of every tracked metric
    scan,             \* canary value of every tracked metric
    sthreshold,       \* config['thresholds']: significance threshold
    sweights,         \* configured weights of the four category scores
    sanalysis,        \* per metric: difference, significant, impact
    suserImpact,      \* impact reported by the user impact analysis
    sdecision,        \* what _make_promotion_decision returned
    \* ---- AlertManager.process_anomalies ----
    alertPc,          \* position of the process_anomalies coroutine
    alertQueue,       \* the anomalies list handed to process_anomalies
    alertIdx,         \* position of the for loop over the anomalies
    chanState,        \* per channel: state of its _send_to_channel task
    chanLog,          \* per anomaly: channels whose send was attempted
    failedLog,        \* per anomaly: channels whose send raised
    alert_history,    \* self.alert_history
    \* ---- AIDeploymentManager.deploy ----
    gpc,              \* position of the deploy coroutine
    gcalls,           \* calls of deploy made so far
    gspec,            \* the deployment spec of the call: risk and size
    gfault,           \* the step of this call that raises ("none": no step)
    gprecheck,        \* whether the pre-deployment checks of this call pass
    gchecks,          \* per pre-deployment check of this call: its success
    gstrategy,        \* strategy selected for this call
    gresult,          \* result['success'] of the executed deployment
    gresponse,        \* what deploy returned
    deployment_history, \* self.deployment_history
    \* ---- AIAnomalyDetector._calculate_severity ----
    sevScore,         \* the score of the latest call, on the 0-100 scale
    sevBand,          \* the band the latest call returned
    sevPrevScore,     \* the score of the call before
    sevPrevBand,      \* the band of the call before
    \* ---- two manage_canary runs side by side ----
    isoN,             \* per rollout: number of stages
    isoSamples,       \* per rollout: the latency sample of every stage
    isoNegAt,         \* per rollout: the stage with a negative Decision
    isoPc,            \* per rollout: position of its manage_canary coroutine
    isoState,         \* per rollout: Rollout.state
    isoStage,         \* per slot: the loop variable of manage_canary
    isoDecisions,     \* per rollout: the Decisions produced
    isoHistory,       \* per detector: self.history['latency']
    isoFed,           \* per rollout: the samples it has handed over
    isoTurn,          \* the rollout that took the latest step
    \* ---- CanaryAnalyzer._determine_impact_level ----
    impThresholds,    \* config['impact_thresholds']
    impDiff,          \* the difference of the latest call
    impLevel,         \* the level the latest call returned
    impPrevDiff,      \* the difference of the call before
    impPrevLevel,     \* the level of the call before
    \* ---- AIAnomalyDetector._calculate_confidence ----
    confScore,        \* the outlier score of the latest call, in hundredths
    confValue,        \* the confidence the latest call returned
    confPrevScore,    \* the score of the call before
    confPrevValue,    \* the confidence of the call before
    \* ---- process_anomalies calls running on one AlertManager ----
    coPc,             \* per call: position of the process_anomalies coroutine
    coQueue,          \* per call: the anomalies list handed to it
    coIdx,            \* per call: position of its for loop
    coAlert,          \* per call: the alert it created and is sending
    coHistory,        \* self.alert_history, shared by the calls
    coNow             \* datetime.now(), in seconds

cvars == <<nStages, pc, state, stageIdx, trafficN, monitorN, decisionN,
           verifiedN,
           decision, anomaly, verdict, stage_result, analysis, history,
           abortReason, cancelRequested>>

avars == <<apc, baseFailAt, canFailAt, baseline_metrics, canary_metrics,
           computed, scoreOk, response>>

rvars == <<rpc, planLen, stepIdx, stepOutcome, rlog, results,
           rollback_result, verification, rstatus>>

\* The variables of the components beside controller and analyzer.
dvars == <<dconfig, dhistory, dnow, dcalls, lastMetrics, lastChecked,
           lastEvicted, lastRaised, lastAnomalies, lastFit>>

svars == <<spc, sbase, scan, sthreshold, sweights, sanalysis, suserImpact,
           sdecision>>

mvars == <<alertPc, alertQueue, alertIdx, chanState, chanLog, failedLog,
           alert_history>>

\* The variables of the components beside the deployment package's
\* controller, analyzer, rollback handler and detector.
gvars == <<gpc, gcalls, gspec, gfault, gprecheck, gchecks, gstrategy,
           gresult, gresponse, deployment_history>>

sevvars == <<sevScore, sevBand, sevPrevScore, sevPrevBand>>

ivars == <<isoN, isoSamples, isoNegAt, isoPc, isoState, isoStage,
           isoDecisions, isoHistory, isoFed, isoTurn>>

impvars == <<impThresholds, impDiff, impLevel, impPrevDiff, impPrevLevel>>

confvars == <<confScore, confValue, confPrevScore, confPrevValue>>

covars == <<coPc, coQueue, coIdx, coAlert, coHistory, coNow>>

wvars == <<impvars, confvars, covars>>

yvars == <<mvars, gvars, sevvars, ivars>>

xvars == <<rvars, dvars, svars, yvars>>

nonCanary == <<avars, xvars, wvars>>

nonAnalyzer == <<cvars, xvars, wvars>>

nonRollback == <<cvars, avars, dvars, svars, yvars, wvars>>

nonDetector == <<cvars, avars, rvars, svars, yvars, wvars>>

nonDecision == <<cvars, avars, rvars, dvars, yvars, wvars>>

nonAlert == <<cvars, avars, rvars, dvars, svars, gvars, sevvars, ivars, wvars>>

nonDeploy == <<cvars, avars, rvars, dvars, svars, mvars, sevvars, ivars,
              wvars>>

nonSeverity == <<cvars, avars, rvars, dvars, svars, mvars, gvars, ivars,
              wvars>>

nonIso == <<cvars, avars, rvars, dvars, svars, mvars, gvars, sevvars, wvars>>

nonImpact == <<cvars, avars, xvars, confvars, covars>>

nonConfidence == <<cvars, avars, xvars, impvars, covars>>

nonConcurrent == <<cvars, avars, xvars, impvars, confvars>>

vars == <<cvars, avars, xvars, wvars>>

NoStageResult == [success |-> FALSE, cause |-> "unset"]

NoAnalysis == [continue_rollout |-> FALSE, set |-> FALSE]

NoResponse == [kind |-> "none", promote |-> FALSE]

\* _generate_error_response: the failure report carries no promotion.
ErrorResponse == [kind |-> "error", promote |-> FALSE]

(***************************************************************************)
(* CanaryController                                                        *)
(***************************************************************************)

CanaryStart(n) ==
    /\ nStages = n
    /\ pc = "start"
    /\ state = "Pending"
    /\ stageIdx = 0
    /\ trafficN = [i \in StageIds |-> 0]
    /\ monitorN = [i \in StageIds |-> 0]
    /\ decisionN = [i \in StageIds |-> 0]
    /\ verifiedN = [i \in StageIds |-> 0]
    /\ decision = [i \in StageIds |-> "none"]
    /\ anomaly = [i \in StageIds |-> "none"]
    /\ verdict = FALSE
    /\ stage_result = NoStageResult
    /\ analysis = NoAnalysis
    /\ history = <<>>
    /\ abortReason = "none"
    /\ cancelRequested = FALSE

AnalyzerStart(b, c) ==
    /\ apc = "collect_baseline"
    /\ baseFailAt = b
    /\ canFailAt = c
    /\ baseline_metrics = {}
    /\ canary_metrics = {}
    /\ computed = {}
    /\ scoreOk = FALSE
    /\ response = NoResponse

\* _initialize_canary: Pending -> InProgress, or raises into the outer except.
InitializeCanary ==
    /\ pc = "start"
    /\ \E raises \in BOOLEAN :
        IF raises
        THEN /\ pc' = "error"
             /\ state' = state
        ELSE /\ pc' = "loop"
             /\ state' = "InProgress"
    /\ UNCHANGED <<nStages, stageIdx, trafficN, monitorN, decisionN, decision,
                   anomaly, verdict, stage_result, analysis, history,
                   abortReason, cancelRequested>>
    /\ UNCHANGED verifiedN
    /\ UNCHANGED nonCanary

\* manage_canary line 30: the for statement takes the stages in list order.
NextStage_Rewind(i) == IF i = 2 THEN 1 ELSE i + 1

NextStage_Skip(i) == i + 2

NextStage(i) == i + 1

\* manage_canary lines 36-40: a failed stage result goes to the failure
\* handler before any analysis is made.
AfterStage_NoCheck(sr) == "analyze"

AfterStage(sr) == IF ~sr.success THEN "failure" ELSE "analyze"

\* manage_canary lines 45-49: a negative analysis goes to the failure handler.
AfterAnalysis_NoCheck(an) == "update"

AfterAnalysis(an) == IF ~an.continue_rollout THEN "failure" ELSE "update"

\* manage_canary lines 37 and 46: the handler's result is returned.
AfterFailure_NoReturn == "loop"

AfterFailure == "done"

\* for stage in deployment_data['canary']['stages']
LoopHead ==
    /\ pc = "loop"
    /\ IF stageIdx < nStages
       THEN /\ stageIdx' = NextStage(stageIdx)
            /\ pc' = "traffic"
       ELSE /\ stageIdx' = stageIdx
            /\ pc' = "finalize"
    /\ UNCHANGED <<nStages, state, trafficN, monitorN, decisionN, decision,
                   anomaly, verdict, stage_result, analysis, history,
                   abortReason, cancelRequested>>
    /\ UNCHANGED verifiedN
    /\ UNCHANGED nonCanary

\* _update_traffic_distribution: where _execute_canary_stage goes after
\* the traffic update. Its result is not looked at (lines 64-68), so an
\* update that was not applied or not read back as applied is raised and
\* becomes a failed stage result (lines 83-89).
AfterTrafficUpdate_Unchecked(outcome) ==
    IF outcome = "raises" THEN "check_stage" ELSE "monitor"

AfterTrafficUpdate(outcome) ==
    IF outcome = "verified" THEN "monitor" ELSE "check_stage"

\* _execute_canary_stage lines 64-68 and 83-89: the traffic update and the
\* read of the resulting traffic split; an exception becomes a failed stage
\* result.
UpdateTrafficDistribution ==
    /\ pc = "traffic"
    /\ stageIdx \in StageIds
    /\ trafficN[stageIdx] < MaxCalls
    /\ trafficN' = [trafficN EXCEPT ![stageIdx] = @ + 1]
    /\ \E outcome \in {"verified", "unverified", "raises"} :
        /\ verifiedN' = [verifiedN EXCEPT
                            ![stageIdx] = IF outcome = "verified"
                                          THEN @ + 1 ELSE @]
        /\ pc' = AfterTrafficUpdate(outcome)
        /\ stage_result' =
               IF AfterTrafficUpdate(outcome) = "monitor" THEN stage_result
               ELSE [success |-> FALSE, cause |-> "exception"]
    /\ UNCHANGED <<nStages, state, stageIdx, monitorN, decisionN, decision,
                   anomaly, verdict, analysis, history, abortReason,
                   cancelRequested>>
    /\ UNCHANGED nonCanary

\* What the stage wait reports: a pending cancel request, a raised exception,
\* a failed metric query and a high or critical anomaly all fail the stage.
MonitorCause(cancel, fault, sev) ==
    IF cancel THEN "cancel"
    ELSE IF fault # "none" THEN fault
    ELSE IF sev \in AbortSeverities THEN "anomaly"
    ELSE "ok"

\* _execute_canary_stage lines 70-81 and 83-89: the stage wait.
MonitorCanaryStage ==
    /\ pc = "monitor"
    /\ \E sev \in Severities, v \in BOOLEAN,
          fault \in {"none", "exception", "collection"} :
        /\ monitorN' = [monitorN EXCEPT ![stageIdx] = @ + 1]
        /\ anomaly' = [anomaly EXCEPT ![stageIdx] = sev]
        /\ verdict' = v
        /\ LET cause == MonitorCause(cancelRequested, fault, sev)
           IN  stage_result' = [success |-> (cause = "ok"), cause |-> cause]
    /\ pc' = "check_stage"
    /\ UNCHANGED <<nStages, state, stageIdx, trafficN, decisionN, decision,
                   analysis, history, abortReason, cancelRequested>>
    /\ UNCHANGED verifiedN
    /\ UNCHANGED nonCanary

\* manage_canary lines 36-40
CheckStageResult ==
    /\ pc = "check_stage"
    /\ pc' = AfterStage(stage_result)
    /\ abortReason' = IF pc' = "failure" THEN "stage_result" ELSE abortReason
    /\ UNCHANGED <<nStages, state, stageIdx, trafficN, monitorN, decisionN,
                   decision, anomaly, verdict, stage_result, analysis,
                   history, cancelRequested>>
    /\ UNCHANGED verifiedN
    /\ UNCHANGED nonCanary

\* _analyze_canary_metrics lines 91-110: one Decision from the stage's
\* metrics; an exception is not caught here and reaches the outer except.
AnalyzeCanaryMetrics ==
    /\ pc = "analyze"
    /\ \E raises \in BOOLEAN :
        IF raises
        THEN /\ pc' = "error"
             /\ UNCHANGED <<decisionN, decision, analysis>>
        ELSE /\ pc' = "check_analysis"
             /\ decisionN' = [decisionN EXCEPT ![stageIdx] = @ + 1]
             /\ decision' = [decision EXCEPT
                               ![stageIdx] = IF verdict THEN "pos" ELSE "neg"]
             /\ analysis' = [continue_rollout |-> verdict, set |-> TRUE]
    /\ UNCHANGED <<nStages, state, stageIdx, trafficN, monitorN, anomaly,
                   verdict, stage_result, history, abortReason,
                   cancelRequested>>
    /\ UNCHANGED verifiedN
    /\ UNCHANGED nonCanary

\* manage_canary lines 45-49
CheckAnalysis ==
    /\ pc = "check_analysis"
    /\ pc' = AfterAnalysis(analysis)
    /\ abortReason' = IF pc' = "failure" THEN "analysis" ELSE abortReason
    /\ UNCHANGED <<nStages, state, stageIdx, trafficN, monitorN, decisionN,
                   decision, anomaly, verdict, stage_result, analysis,
                   history, cancelRequested>>
    /\ UNCHANGED verifiedN
    /\ UNCHANGED nonCanary

\* manage_canary line 52: the stage result is merged into the rollout.
UpdateCanaryStatus ==
    /\ pc = "update"
    /\ \E raises \in BOOLEAN :
        IF raises
        THEN /\ pc' = "error"
             /\ history' = history
        ELSE /\ pc' = "loop"
             /\ history' = Append(history,
                                  [stage |-> stageIdx,
                                   decision |-> decision[stageIdx]])
    /\ UNCHANGED <<nStages, state, stageIdx, trafficN, monitorN, decisionN,
                   decision, anomaly, verdict, stage_result, analysis,
                   abortReason, cancelRequested>>
    /\ UNCHANGED verifiedN
    /\ UNCHANGED nonCanary

\* manage_canary line 55: InProgress -> Promoting
FinalizeCanary ==
    /\ pc = "finalize"
    /\ \E raises \in BOOLEAN :
        IF raises
        THEN /\ pc' = "error"
             /\ state' = state
        ELSE /\ pc' = "promoting"
             /\ state' = "Promoting"
    /\ UNCHANGED <<nStages, stageIdx, trafficN, monitorN, decisionN, decision,
                   anomaly, verdict, stage_result, analysis, history,
                   abortReason, cancelRequested>>
    /\ UNCHANGED verifiedN
    /\ UNCHANGED nonCanary

\* Promoting -> Promoted, and manage_canary returns.
Promote ==
    /\ pc = "promoting"
    /\ state' = "Promoted"
    /\ pc' = "done"
    /\ UNCHANGED <<nStages, stageIdx, trafficN, monitorN, decisionN, decision,
                   anomaly, verdict, stage_result, analysis, history,
                   abortReason, cancelRequested>>
    /\ UNCHANGED verifiedN
    /\ UNCHANGED nonCanary

\* _handle_canary_failure: InProgress -> RollingBack; an exception in the
\* handler reaches the outer except of manage_canary.
HandleCanaryFailure ==
    /\ pc = "failure"
    /\ \E raises \in BOOLEAN :
        IF raises
        THEN /\ pc' = "error"
             /\ state' = state
        ELSE /\ pc' = "rollback"
             /\ state' = "RollingBack"
    /\ UNCHANGED <<nStages, stageIdx, trafficN, monitorN, decisionN, decision,
                   anomaly, verdict, stage_result, analysis, history,
                   abortReason, cancelRequested>>
    /\ UNCHANGED verifiedN
    /\ UNCHANGED nonCanary

\* manage_canary lines 57-59: _handle_canary_error. A rollout that never
\* started has nothing to compensate; a started one is rolled back.
HandleCanaryError ==
    /\ pc = "error"
    /\ abortReason' = "error"
    /\ IF state = "Pending"
       THEN /\ state' = "Failed"
            /\ pc' = "done"
       ELSE /\ state' = "RollingBack"
            /\ pc' = "rollback"
    /\ UNCHANGED <<nStages, stageIdx, trafficN, monitorN, decisionN, decision,
                   anomaly, verdict, stage_result, analysis, history,
                   cancelRequested>>
    /\ UNCHANGED verifiedN
    /\ UNCHANGED nonCanary

\* RollingBack -> RolledBack | Failed, then the handler's result is returned.
Rollback ==
    /\ pc = "rollback"
    /\ \E ok \in BOOLEAN :
        state' = IF ok THEN "RolledBack" ELSE "Failed"
    /\ pc' = AfterFailure
    /\ UNCHANGED <<nStages, stageIdx, trafficN, monitorN, decisionN, decision,
                   anomaly, verdict, stage_result, analysis, history,
                   abortReason, cancelRequested>>
    /\ UNCHANGED verifiedN
    /\ UNCHANGED nonCanary

\* An operator or a timeout asks for the rollout to be aborted.
RequestCancel ==
    /\ state = "InProgress"
    /\ ~cancelRequested
    /\ cancelRequested' = TRUE
    /\ UNCHANGED <<nStages, pc, state, stageIdx, trafficN, monitorN,
                   decisionN, decision, anomaly, verdict, stage_result,
                   analysis, history, abortReason>>
    /\ UNCHANGED verifiedN
    /\ UNCHANGED nonCanary

(***************************************************************************)
(* CanaryAnalyzer                                                          *)
(***************************************************************************)

\* The queries of _collect_baseline_metrics, in the order they are awaited.
Queries ==
    <<"latency", "throughput", "success_rate",
      "cpu_usage", "memory_usage", "network_io",
      "error_rate", "error_types">>

\* The category a query belongs to (lines 97, 110 and 123).
CategoryOf(q) ==
    IF q \in {"latency", "throughput", "success_rate"} THEN "performance"
    ELSE IF q \in {"cpu_usage", "memory_usage", "network_io"} THEN "resources"
    ELSE "errors"

QueryPos(q) == CHOOSE i \in 1..Len(Queries) : Queries[i] = q

FailPoints == {"none"} \cup {Queries[i] : i \in 1..Len(Queries)}

\* _collect_baseline_metrics lines 94-135: a category enters the dict only
\* when all of its queries returned; the first failing query ends the
\* collection and the dict filled so far is returned.
Collected(failAt) ==
    IF failAt = "none"
    THEN {Categories[i] : i \in 1..Len(Categories)}
    ELSE {CategoryOf(Queries[i]) : i \in 1..(QueryPos(failAt) - 1)}
            \ {CategoryOf(failAt)}

\* metrics[category]: a missing key raises KeyError.
HasKey_Default(metrics, cat) == TRUE

HasKey(metrics, cat) == cat \in metrics

\* analyze_canary line 41
CollectBaselineMetrics ==
    /\ apc = "collect_baseline"
    /\ baseline_metrics' = Collected(baseFailAt)
    /\ apc' = "collect_canary"
    /\ UNCHANGED <<baseFailAt, canFailAt, canary_metrics, computed, scoreOk,
                   response>>
    /\ UNCHANGED nonAnalyzer

\* analyze_canary line 42, _collect_canary_metrics lines 137-141
CollectCanaryMetrics ==
    /\ apc = "collect_canary"
    /\ canary_metrics' = Collected(canFailAt)
    /\ apc' = "analyze_performance"
    /\ UNCHANGED <<baseFailAt, canFailAt, baseline_metrics, computed, scoreOk,
                   response>>
    /\ UNCHANGED nonAnalyzer

\* One entry of the analysis_results literal (analyze_canary lines 45-62):
\* the comparison of one category, or the KeyError that lines 81-83 turn
\* into the error response.
AnalyzeCategory(at, cat, next) ==
    /\ apc = at
    /\ IF HasKey(baseline_metrics, cat) /\ HasKey(canary_metrics, cat)
       THEN /\ computed' = computed \cup {cat}
            /\ apc' = next
            /\ response' = response
       ELSE /\ computed' = computed
            /\ apc' = "done"
            /\ response' = ErrorResponse
    /\ UNCHANGED <<baseFailAt, canFailAt, baseline_metrics, canary_metrics,
                   scoreOk>>
    /\ UNCHANGED nonAnalyzer

\* _analyze_performance lines 143-187
AnalyzePerformance ==
    AnalyzeCategory("analyze_performance", "performance", "analyze_errors")

\* _analyze_errors lines 189-221
AnalyzeErrors ==
    AnalyzeCategory("analyze_errors", "errors", "analyze_resources")

\* _analyze_resources lines 223-255
AnalyzeResources ==
    AnalyzeCategory("analyze_resources", "resources", "analyze_user_impact")

\* analyze_canary lines 58-61: _analyze_user_impact
AnalyzeUserImpact ==
    /\ apc = "analyze_user_impact"
    /\ \E raises \in BOOLEAN :
        IF raises
        THEN /\ apc' = "done"
             /\ response' = ErrorResponse
        ELSE /\ apc' = "decide"
             /\ response' = response
    /\ UNCHANGED <<baseFailAt, canFailAt, baseline_metrics, canary_metrics,
                   computed, scoreOk>>
    /\ UNCHANGED nonAnalyzer

\* _make_promotion_decision lines 257-291 and analyze_canary lines 64-79
MakePromotionDecision ==
    /\ apc = "decide"
    /\ \E ok \in BOOLEAN :
        /\ scoreOk' = ok
        /\ response' = [kind |-> "analysis", promote |-> ok]
    /\ apc' = "done"
    /\ UNCHANGED <<baseFailAt, canFailAt, baseline_metrics, canary_metrics,
                   computed>>
    /\ UNCHANGED nonAnalyzer

(***************************************************************************)
(* RollbackHandler                                                         *)
(***************************************************************************)

\* Longest rollback plan explored (rollback_plan['rollback_steps']).
MaxSteps == 3

StepIds == 1..MaxSteps

NoRollbackResult == [steps_executed |-> 0, success |-> FALSE, set |-> FALSE]

NoVerification == [success |-> FALSE, set |-> FALSE]

RollbackStart(n) ==
    /\ rpc = "can_rollback"
    /\ planLen = n
    /\ stepIdx = 0
    /\ stepOutcome = "none"
    /\ rlog = <<>>
    /\ results = <<>>
    /\ rollback_result = NoRollbackResult
    /\ verification = NoVerification
    /\ rstatus = "none"

\* _execute_rollback lines 90-91 and 93-100: a step that did not succeed
\* ends the loop.
AfterStep_NoBreak(success) == "exec_loop"

AfterStep(success) == IF ~success THEN "exec_return" ELSE "exec_loop"

\* _execute_rollback line 104: all(r['success'] for r in results)
AllSucceeded_IgnoreLast(rs) == \A i \in 1..(Len(rs) - 1) : rs[i].success

AllSucceeded(rs) == \A i \in 1..Len(rs) : rs[i].success

\* handle_rollback line 56
StatusOf_Always(v) == "success"

StatusOf(v) == IF v.success THEN "success" ELSE "failed"

\* handle_rollback lines 28-33: a rollback that is not possible is reported
\* at once; only a possible one goes on to the plan.
AfterCanRollback_Ignore(answer) ==
    IF answer = "raise" THEN "done" ELSE "prepare"

AfterCanRollback(answer) == IF answer = "yes" THEN "prepare" ELSE "done"

\* handle_rollback lines 27-33 and 62-64
CanRollback ==
    /\ rpc = "can_rollback"
    /\ \E answer \in {"yes", "no", "raise"} :
        /\ rpc' = AfterCanRollback(answer)
        /\ rstatus' = IF answer = "no" THEN "failed"
                      ELSE IF answer = "raise" THEN "error"
                      ELSE rstatus
    /\ UNCHANGED <<planLen, stepIdx, stepOutcome, rlog, results,
                   rollback_result, verification>>
    /\ UNCHANGED nonRollback

\* handle_rollback line 36, _prepare_rollback lines 66-79
PrepareRollback ==
    /\ rpc = "prepare"
    /\ \E raises \in BOOLEAN :
        /\ rpc' = IF raises THEN "done" ELSE "exec_loop"
        /\ rstatus' = IF raises THEN "error" ELSE rstatus
    /\ UNCHANGED <<planLen, stepIdx, stepOutcome, rlog, results,
                   rollback_result, verification>>
    /\ UNCHANGED nonRollback

\* _execute_rollback line 85: for step in rollback_plan['rollback_steps']
ExecLoopHead ==
    /\ rpc = "exec_loop"
    /\ IF stepIdx < planLen
       THEN /\ stepIdx' = stepIdx + 1
            /\ rpc' = "apply"
       ELSE /\ stepIdx' = stepIdx
            /\ rpc' = "exec_return"
    /\ UNCHANGED <<planLen, stepOutcome, rlog, results, rollback_result,
                   verification, rstatus>>
    /\ UNCHANGED nonRollback

\* _execute_rollback_step, first half: the step is applied to the cluster.
ApplyRollbackStep ==
    /\ rpc = "apply"
    /\ Len(rlog) < 2 * MaxSteps + 2
    /\ rlog' = Append(rlog, <<"apply", stepIdx>>)
    /\ \E out \in {"ok", "fail", "raise"} :
        /\ stepOutcome' = out
        /\ rpc' = IF out = "ok" THEN "verify_step" ELSE "step_done"
    /\ UNCHANGED <<planLen, stepIdx, results, rollback_result, verification,
                   rstatus>>
    /\ UNCHANGED nonRollback

\* _execute_rollback_step, second half: the post-condition of the applied
\* step is read back; a failed check fails the step.
VerifyRollbackStep ==
    /\ rpc = "verify_step"
    /\ rlog' = Append(rlog, <<"verify", stepIdx>>)
    /\ \E out \in {"ok", "verify_fail", "raise"} : stepOutcome' = out
    /\ rpc' = "step_done"
    /\ UNCHANGED <<planLen, stepIdx, results, rollback_result, verification,
                   rstatus>>
    /\ UNCHANGED nonRollback

\* _execute_rollback lines 87-100: the result is appended and a failure
\* (returned or raised) breaks out of the loop.
RecordStepResult ==
    /\ rpc = "step_done"
    /\ LET success == (stepOutcome = "ok")
       IN  /\ results' = Append(results,
                                [step |-> stepIdx, success |-> success,
                                 how |-> stepOutcome])
           /\ rpc' = AfterStep(success)
    /\ UNCHANGED <<planLen, stepIdx, stepOutcome, rlog, rollback_result,
                   verification, rstatus>>
    /\ UNCHANGED nonRollback

\* _execute_rollback lines 102-106
ExecuteRollbackReturn ==
    /\ rpc = "exec_return"
    /\ rollback_result' = [steps_executed |-> Len(results),
                           success |-> AllSucceeded(results),
                           set |-> TRUE]
    /\ rpc' = "verify"
    /\ UNCHANGED <<planLen, stepIdx, stepOutcome, rlog, results, verification,
                   rstatus>>
    /\ UNCHANGED nonRollback

\* handle_rollback lines 41-45: _verify_rollback is given the rollback
\* result; a failed rollback never verifies.
VerifyRollback ==
    /\ rpc = "verify"
    /\ \E out \in {"ok", "fail", "raise"} :
        IF out = "raise"
        THEN /\ rpc' = "done"
             /\ rstatus' = "error"
             /\ verification' = verification
        ELSE /\ rpc' = "record"
             /\ rstatus' = rstatus
             /\ verification' = [success |-> (rollback_result.success
                                              /\ out = "ok"),
                                 set |-> TRUE]
    /\ UNCHANGED <<planLen, stepIdx, stepOutcome, rlog, results,
                   rollback_result>>
    /\ UNCHANGED nonRollback

\* handle_rollback lines 47-64: the rollback is recorded and reported.
RecordRollback ==
    /\ rpc = "record"
    /\ \E raises \in BOOLEAN :
        rstatus' = IF raises THEN "error" ELSE StatusOf(verification)
    /\ rpc' = "done"
    /\ UNCHANGED <<planLen, stepIdx, stepOutcome, rlog, results,
                   rollback_result, verification>>
    /\ UNCHANGED nonRollback

RollbackNext ==
    \/ CanRollback
    \/ PrepareRollback
    \/ ExecLoopHead
    \/ ApplyRollbackStep
    \/ VerifyRollbackStep
    \/ RecordStepResult
    \/ ExecuteRollbackReturn
    \/ VerifyRollback
    \/ RecordRollback

(***************************************************************************)
(* AIAnomalyDetector                                                       *)
(***************************************************************************)

\* Number of detect_anomalies calls explored.
MaxObs == 3

\* Latest clock reading explored.
MaxTime == 4

\* Largest step of the clock between two calls.
MaxDelta == 2

\* Metric names in the order of the metrics dict.
MetricNames == <<"cpu_usage", "error_rate">>

Metrics == {MetricNames[i] : i \in 1..Len(MetricNames)}

MetricValues == {10, 95}

\* Outlier scores of the model, in hundredths (score_samples is negative).
ScoreSet == {-90, -50, -5}

\* config['anomaly_threshold'], in hundredths
AnomalyThreshold == 10

DetectorConfigs ==
    [training_period_days : {0, 2}, minimum_datapoints : {2, 3}]

DetectorStart(cfg) ==
    /\ dconfig = cfg
    /\ dhistory = [m \in Metrics |-> <<>>]
    /\ dnow = 0
    /\ dcalls = 0
    /\ lastMetrics = <<>>
    /\ lastChecked = {}
    /\ lastEvicted = [m \in Metrics |-> 0]
    /\ lastRaised = FALSE
    /\ lastAnomalies = <<>>
    /\ lastFit = [m \in Metrics |-> <<>>]

Abs(x) == IF x < 0 THEN -x ELSE x

Min(x, y) == IF x < y THEN x ELSE y

\* detect_anomalies lines 54-59: points at or before the cutoff are dropped.
Evict_KeepAll(points, cutoff) == points

Evict(points, cutoff) ==
    SelectSeq(points, LAMBDA point : point.timestamp > cutoff)

\* detect_anomalies lines 47-59: the new point is appended, then the window
\* is cut to the training period.
Observe(points, value, now, cfg) ==
    Evict(Append(points, [timestamp |-> now, value |-> value]),
          now - cfg.training_period_days)

\* detect_anomalies line 62
EnoughData_Always(points, cfg) == TRUE

EnoughData(points, cfg) == Len(points) >= cfg.minimum_datapoints

\* _calculate_severity lines 95-104, score in hundredths
CalculateSeverity(score) ==
    IF Abs(score) > 80 THEN "critical"
    ELSE IF Abs(score) > 60 THEN "high"
    ELSE IF Abs(score) > 40 THEN "medium"
    ELSE "low"

\* _calculate_confidence lines 106-108, result in tenths of a percent
CalculateConfidence_Uncapped(score) == Abs(score) * 10

CalculateConfidence(score) == Min(Abs(score) * 10, 999)

\* _check_metric_anomaly lines 69-93: the anomalies (none or one) found for
\* one metric, given the score the fitted model gives the current value.
CheckMetricAnomaly_PerPoint(name, value, score, points) ==
    IF score < -AnomalyThreshold
    THEN [i \in 1..Len(points) |->
            [metric |-> name, current_value |-> value,
             severity |-> CalculateSeverity(score),
             confidence |-> CalculateConfidence(score)]]
    ELSE <<>>

CheckMetricAnomaly(name, value, score, points) ==
    IF score < -AnomalyThreshold
    THEN << [metric |-> name, current_value |-> value,
             severity |-> CalculateSeverity(score),
             confidence |-> CalculateConfidence(score)] >>
    ELSE <<>>

\* _check_metric_anomaly lines 71-75: the values self.model is fitted on
\* before it scores the current value of the metric.
HistoricalValues_AllMetrics(hist, name) ==
    LET all == hist[MetricNames[1]] \o hist[MetricNames[2]]
    IN  [i \in 1..Len(all) |-> all[i].value]

HistoricalValues(hist, name) ==
    [i \in 1..Len(hist[name]) |-> hist[name][i].value]

\* The metrics dicts a call can pass: values for a subset of the names.
MetricDicts ==
    UNION {[names -> MetricValues] : names \in SUBSET Metrics}

\* detect_anomalies lines 42-67, one call: every metric of the dict is
\* appended to its window, the window is cut, and the model is run when the
\* window has enough points.
DetectAnomalies ==
    /\ dcalls < MaxObs
    /\ \E metrics \in MetricDicts, delta \in 0..MaxDelta :
        /\ dnow + delta <= MaxTime
        /\ LET now == dnow + delta
               names == DOMAIN metrics
               window(m) == Observe(dhistory[m], metrics[m], now, dconfig)
               checked == {m \in names : EnoughData(window(m), dconfig)}
               updated == [m \in Metrics |->
                             IF m \in names THEN window(m) ELSE dhistory[m]]
           IN  \E score \in [checked -> ScoreSet] :
               LET found(m) ==
                       IF m \in checked
                       THEN CheckMetricAnomaly(m, metrics[m], score[m],
                                               window(m))
                       ELSE <<>>
               IN  /\ dnow' = now
                   /\ dhistory' = updated
                   /\ lastEvicted' = [m \in Metrics |->
                                        IF m \in names
                                        THEN Len(dhistory[m]) + 1
                                                 - Len(window(m))
                                        ELSE 0]
                   /\ lastMetrics' = metrics
                   /\ lastChecked' = checked
                   /\ lastFit' = [m \in Metrics |->
                                    IF m \in checked
                                    THEN HistoricalValues(updated, m)
                                    ELSE <<>>]
                   /\ lastRaised' = (\E m \in checked : Len(window(m)) = 0)
                   /\ lastAnomalies' = found(MetricNames[1])
                                          \o found(MetricNames[2])
    /\ dcalls' = dcalls + 1
    /\ UNCHANGED dconfig
    /\ UNCHANGED nonDetector

DetectorNext == DetectAnomalies

(***************************************************************************)
(* CanaryAnalyzer: metric comparison and promotion decision                *)
(***************************************************************************)

\* The metrics compared by _analyze_performance, _analyze_errors and
\* _analyze_resources.
PerformanceMetrics == {"latency", "throughput", "success_rate"}

ErrorMetrics == {"error_rate"}

ResourceMetrics == {"cpu", "memory"}

TrackedMetrics == PerformanceMetrics \cup ErrorMetrics \cup ResourceMetrics

\* <<baseline, canary>> pairs drawn for the first metric of a category ...
PrimaryCases ==
    {<<100, 100>>, <<100, 105>>, <<100, 108>>, <<100, 115>>, <<100, 130>>,
     <<0, 50>>, <<1, 8>>}

\* ... and for the other metrics.
SecondaryCases == {<<100, 100>>, <<100, 88>>}

PrimaryMetrics == {"latency", "error_rate", "cpu"}

CasesOf(m) == IF m \in PrimaryMetrics THEN PrimaryCases ELSE SecondaryCases

ImpactLevels == {"insignificant", "low", "medium", "high"}

ScoreNames ==
    {"performance_score", "error_score", "resource_score",
     "user_impact_score"}

\* Weights in tenths; the first is the default of
\* _calculate_decision_confidence (lines 338-343).
WeightConfigs ==
    { [performance_score |-> 4, error_score |-> 3, resource_score |-> 2,
       user_impact_score |-> 1],
      [performance_score |-> 10, error_score |-> 10, resource_score |-> 10,
       user_impact_score |-> 10],
      [performance_score |-> 0, error_score |-> 5, resource_score |-> 0,
       user_impact_score |-> 0],
      [performance_score |-> -5, error_score |-> 3, resource_score |-> 2,
       user_impact_score |-> 1] }

\* config['promotion_threshold'], in thousandths
PromotionThreshold == 800

\* config['impact_thresholds'] defaults (lines 354-358)
ImpactHigh == 20

ImpactMedium == 10

ImpactLow == 5

NoMetricAnalysis ==
    [difference_percentage |-> 0, significant |-> FALSE,
     impact |-> "insignificant", set |-> FALSE]

NoDecision ==
    [promote |-> FALSE, overall_score |-> 0, confidence |-> 0,
     metrics_scores |-> [n \in ScoreNames |-> 0], reasons |-> <<>>,
     set |-> FALSE]

DecisionStart(b, c, t, w) ==
    /\ spc = "performance"
    /\ sbase = b
    /\ scan = c
    /\ sthreshold = t
    /\ sweights = w
    /\ sanalysis = [m \in TrackedMetrics |-> NoMetricAnalysis]
    /\ suserImpact = "insignificant"
    /\ sdecision = NoDecision

\* _calculate_metric_difference: percent difference of canary against
\* baseline, 0 for a baseline of 0.
CalculateMetricDifference(baseline, canary) ==
    IF baseline = 0 THEN 0 ELSE ((canary - baseline) * 100) \div baseline

\* _determine_impact_level lines 354-358: the cutoffs when the config has no
\* impact_thresholds
DefaultImpactThresholds ==
    [high |-> ImpactHigh, medium |-> ImpactMedium, low |-> ImpactLow]

\* _determine_impact_level lines 360-369, for the cutoffs of the config
ImpactLevelFor_Signed(difference, thresholds) ==
    IF difference > thresholds.high THEN "high"
    ELSE IF difference > thresholds.medium THEN "medium"
    ELSE IF difference > thresholds.low THEN "low"
    ELSE "insignificant"

ImpactLevelFor(difference, thresholds) ==
    IF Abs(difference) > thresholds.high THEN "high"
    ELSE IF Abs(difference) > thresholds.medium THEN "medium"
    ELSE IF Abs(difference) > thresholds.low THEN "low"
    ELSE "insignificant"

\* _determine_impact_level lines 352-369
DetermineImpactLevel_Inclusive(difference) ==
    IF Abs(difference) >= ImpactHigh THEN "high"
    ELSE IF Abs(difference) >= ImpactMedium THEN "medium"
    ELSE IF Abs(difference) >= ImpactLow THEN "low"
    ELSE "insignificant"

DetermineImpactLevel(difference) ==
    ImpactLevelFor(difference, DefaultImpactThresholds)

\* One entry of an analysis dict, e.g. lines 152-161 for latency: the
\* difference of canary against baseline, its significance and its impact.
AnalyzeMetric_Swapped(baseline, canary, threshold) ==
    LET diff == CalculateMetricDifference(canary, baseline)
    IN  [difference_percentage |-> diff,
         significant |-> Abs(diff) > threshold,
         impact |-> DetermineImpactLevel(diff),
         set |-> TRUE]

AnalyzeMetric(baseline, canary, threshold) ==
    LET diff == CalculateMetricDifference(baseline, canary)
    IN  [difference_percentage |-> diff,
         significant |-> Abs(diff) > threshold,
         impact |-> DetermineImpactLevel(diff),
         set |-> TRUE]

ImpactRank(level) ==
    IF level = "high" THEN 3
    ELSE IF level = "medium" THEN 2
    ELSE IF level = "low" THEN 1
    ELSE 0

\* The worst impact among the significant entries of one category.
WorstSignificantImpact(analysis_results, metrics) ==
    LET ranks == {ImpactRank(analysis_results[m].impact) :
                     m \in {x \in metrics : analysis_results[x].significant}}
    IN  IF 3 \in ranks THEN "high"
        ELSE IF 2 \in ranks THEN "medium"
        ELSE IF 1 \in ranks THEN "low"
        ELSE "insignificant"

\* Penalty of an impact level, in hundredths.
Penalty_Unordered(level) ==
    IF level = "high" THEN 100
    ELSE IF level = "medium" THEN 25
    ELSE IF level = "low" THEN 50
    ELSE 0

Penalty(level) ==
    IF level = "high" THEN 100
    ELSE IF level = "medium" THEN 50
    ELSE IF level = "low" THEN 25
    ELSE 0

Clamp(x, lo, hi) == IF x < lo THEN lo ELSE IF x > hi THEN hi ELSE x

\* _calculate_performance_score and its siblings: 1.0 minus the penalty of
\* the category's worst significant impact, in hundredths.
CategoryScore(level) == Clamp(100 - Penalty(level), 0, 100)

WeightedSum(scores, weights) ==
    scores.performance_score * weights.performance_score
        + scores.error_score * weights.error_score
        + scores.resource_score * weights.resource_score
        + scores.user_impact_score * weights.user_impact_score

\* _calculate_overall_score: the weighted sum clamped to [0,1], thousandths.
CalculateOverallScore(scores, weights) ==
    Clamp(WeightedSum(scores, weights), 0, 1000)

\* _calculate_decision_confidence lines 336-350, in thousandths
CalculateDecisionConfidence_Unclamped(scores, weights) ==
    WeightedSum(scores, weights)

CalculateDecisionConfidence(scores, weights) ==
    Min(1000, IF WeightedSum(scores, weights) > 0
              THEN WeightedSum(scores, weights) ELSE 0)

\* _make_promotion_decision line 279
ShouldPromote_Strict(overall_score, threshold) == overall_score > threshold

ShouldPromote(overall_score, threshold) == overall_score >= threshold

\* The category impacts the scores are computed from.
CategoryImpacts(analysis_results, user) ==
    [performance_score |-> WorstSignificantImpact(analysis_results,
                                                  PerformanceMetrics),
     error_score |-> WorstSignificantImpact(analysis_results, ErrorMetrics),
     resource_score |-> WorstSignificantImpact(analysis_results, ResourceMetrics),
     user_impact_score |-> user]

ScoresOf(impacts) == [n \in ScoreNames |-> CategoryScore(impacts[n])]

\* The categories in their declaration order.
ScoreOrder ==
    <<"performance_score", "error_score", "resource_score",
      "user_impact_score">>

WithRank(impacts, r) ==
    SelectSeq(ScoreOrder, LAMBDA n : ImpactRank(impacts[n]) = r)

\* _generate_decision_reasons: the categories with a significant impact,
\* the most severe first, equal severities in declaration order.
GenerateDecisionReasons_Declared(impacts) ==
    SelectSeq(ScoreOrder, LAMBDA n : ImpactRank(impacts[n]) > 0)

GenerateDecisionReasons(impacts) ==
    WithRank(impacts, 3) \o WithRank(impacts, 2) \o WithRank(impacts, 1)

\* One of _analyze_performance (lines 143-187), _analyze_errors (189-221)
\* and _analyze_resources (223-255): every metric of the category is
\* compared.
CompareCategory(at, metrics, next) ==
    /\ spc = at
    /\ sanalysis' = [m \in TrackedMetrics |->
                       IF m \in metrics
                       THEN AnalyzeMetric(sbase[m], scan[m], sthreshold)
                       ELSE sanalysis[m]]
    /\ spc' = next
    /\ UNCHANGED <<sbase, scan, sthreshold, sweights, suserImpact, sdecision>>
    /\ UNCHANGED nonDecision

ComparePerformance ==
    CompareCategory("performance", PerformanceMetrics, "errors")

CompareErrors == CompareCategory("errors", ErrorMetrics, "resources")

CompareResources == CompareCategory("resources", ResourceMetrics, "user_impact")

\* analyze_canary lines 58-61: _analyze_user_impact
CompareUserImpact ==
    /\ spc = "user_impact"
    /\ \E level \in ImpactLevels : suserImpact' = level
    /\ spc' = "decide"
    /\ UNCHANGED <<sbase, scan, sthreshold, sweights, sanalysis, sdecision>>
    /\ UNCHANGED nonDecision

\* _make_promotion_decision lines 257-291
DecidePromotion ==
    /\ spc = "decide"
    /\ LET impacts == CategoryImpacts(sanalysis, suserImpact)
           scores == ScoresOf(impacts)
           overall == CalculateOverallScore(scores, sweights)
       IN  sdecision' =
               [promote |-> ShouldPromote(overall, PromotionThreshold),
                overall_score |-> overall,
                confidence |-> CalculateDecisionConfidence(scores, sweights),
                metrics_scores |-> scores,
                reasons |-> GenerateDecisionReasons(impacts),
                set |-> TRUE]
    /\ spc' = "done"
    /\ UNCHANGED <<sbase, scan, sthreshold, sweights, sanalysis, suserImpact>>
    /\ UNCHANGED nonDecision

DecisionNext ==
    \/ ComparePerformance
    \/ CompareErrors
    \/ CompareResources
    \/ CompareUserImpact
    \/ DecidePromotion

DecisionIdle ==
    DecisionStart([m \in TrackedMetrics |-> 100],
                  [m \in TrackedMetrics |-> 100], 10,
                  [n \in ScoreNames |-> 1])

(***************************************************************************)
(* AlertManager.process_anomalies                                          *)
(***************************************************************************)

\* Longest anomalies list handed to process_anomalies.
MaxAnomalies == 2

AnomalyIds == 1..MaxAnomalies

\* config['alert_channels']
AlertChannels == {"email", "slack", "pagerduty"}

\* config['alert_channels'][channel]['severity_levels']
ChannelSeverityLevels(channel) ==
    IF channel = "email" THEN {"medium", "high", "critical"}
    ELSE IF channel = "slack" THEN {"high", "critical"}
    ELSE {"critical"}

\* config['minimum_severity']
MinimumSeverity == "medium"

\* severity_levels of _should_alert, lines 48-53
SeverityLevel(severity) ==
    IF severity = "critical" THEN 4
    ELSE IF severity = "high" THEN 3
    ELSE IF severity = "medium" THEN 2
    ELSE 1

AnomalyInputs ==
    [metric : {"cpu_usage", "error_rate"},
     severity : {"low", "high", "critical"}]

AnomalyLists ==
    UNION {[1..n -> AnomalyInputs] : n \in 1..MaxAnomalies}

ChannelStates ==
    {"idle", "skipped", "scheduled", "running", "sent", "logged", "escaped",
     "hung"}

AlertStart(anomalies) ==
    /\ alertPc = "loop"
    /\ alertQueue = anomalies
    /\ alertIdx = 1
    /\ chanState = [c \in AlertChannels |-> "idle"]
    /\ chanLog = [k \in AnomalyIds |-> {}]
    /\ failedLog = [k \in AnomalyIds |-> {}]
    /\ alert_history = <<>>

\* _should_alert lines 34-56; recent: an alert of the same metric lies
\* within the cooldown.
ShouldAlert(anomaly_in, recent) ==
    IF recent THEN FALSE
    ELSE SeverityLevel(anomaly_in.severity) >= SeverityLevel(MinimumSeverity)

\* _is_channel_appropriate lines 89-92
IsChannelAppropriate(channel, severity) ==
    severity \in ChannelSeverityLevels(channel)

\* _send_to_channel lines 94-111: how the task ends for an outcome of the
\* channel's send.
SendToChannel_NoCatch(outcome) ==
    IF outcome = "raise" THEN "escaped" ELSE "sent"

SendToChannel(outcome) ==
    IF outcome = "raise" THEN "logged" ELSE "sent"

\* process_anomalies lines 28-29: the loop head and _should_alert
CheckShouldAlert ==
    /\ alertPc = "loop"
    /\ alertIdx <= Len(alertQueue)
    /\ \E recent \in BOOLEAN :
        /\ recent =>
               \E i \in 1..Len(alert_history) :
                   alert_history[i].metric = alertQueue[alertIdx].metric
        /\ IF ShouldAlert(alertQueue[alertIdx], recent)
           THEN /\ alertPc' = "send"
                /\ alertIdx' = alertIdx
           ELSE /\ alertPc' = "loop"
                /\ alertIdx' = alertIdx + 1
    /\ UNCHANGED <<alertQueue, chanState, chanLog, failedLog, alert_history>>
    /\ UNCHANGED nonAlert

\* _create_alert and _send_alerts lines 79-85: one task per appropriate
\* channel.
SendAlerts ==
    /\ alertPc = "send"
    /\ chanState' =
           [c \in AlertChannels |->
               IF IsChannelAppropriate(c, alertQueue[alertIdx].severity)
               THEN "scheduled" ELSE "skipped"]
    /\ alertPc' = "gather"
    /\ UNCHANGED <<alertQueue, alertIdx, chanLog, failedLog, alert_history>>
    /\ UNCHANGED nonAlert

\* The event loop starts the task of a channel.
StartChannel(c) ==
    /\ alertPc = "gather"
    /\ chanState[c] = "scheduled"
    /\ chanState' = [chanState EXCEPT ![c] = "running"]
    /\ chanLog' = [chanLog EXCEPT ![alertIdx] = @ \cup {c}]
    /\ UNCHANGED <<alertPc, alertQueue, alertIdx, failedLog, alert_history>>
    /\ UNCHANGED nonAlert

\* The send of a channel returns or raises.
FinishChannel(c) ==
    /\ alertPc = "gather"
    /\ chanState[c] = "running"
    /\ \E outcome \in {"ok", "raise"} :
        /\ chanState' = [chanState EXCEPT ![c] = SendToChannel(outcome)]
        /\ failedLog' =
               [failedLog EXCEPT ![alertIdx] =
                   IF outcome = "raise" THEN @ \cup {c} ELSE @]
    /\ UNCHANGED <<alertPc, alertQueue, alertIdx, chanLog, alert_history>>
    /\ UNCHANGED nonAlert

\* The send of a channel never completes (no timeout is set on it).
HangChannel(c) ==
    /\ alertPc = "gather"
    /\ chanState[c] = "running"
    /\ chanState' = [chanState EXCEPT ![c] = "hung"]
    /\ UNCHANGED <<alertPc, alertQueue, alertIdx, chanLog, failedLog,
                   alert_history>>
    /\ UNCHANGED nonAlert

\* await asyncio.gather(*tasks), line 87, and the append of line 32:
\* gather raises the first exception of a task, and returns once every
\* task has returned.
AwaitGather ==
    /\ alertPc = "gather"
    /\ IF \E c \in AlertChannels : chanState[c] = "escaped"
       THEN /\ alertPc' = "raised"
            /\ UNCHANGED <<alertIdx, chanState, alert_history>>
       ELSE /\ \A c \in AlertChannels :
                   chanState[c] \in {"skipped", "sent", "logged"}
            /\ alert_history' =
                   Append(alert_history,
                          [metric |-> alertQueue[alertIdx].metric,
                           severity |-> alertQueue[alertIdx].severity,
                           anomaly |-> alertIdx])
            /\ alertIdx' = alertIdx + 1
            /\ chanState' = [c \in AlertChannels |-> "idle"]
            /\ alertPc' = "loop"
    /\ UNCHANGED <<alertQueue, chanLog, failedLog>>
    /\ UNCHANGED nonAlert

\* The for loop of process_anomalies is exhausted.
ProcessAnomaliesReturn ==
    /\ alertPc = "loop"
    /\ alertIdx > Len(alertQueue)
    /\ alertPc' = "done"
    /\ UNCHANGED <<alertQueue, alertIdx, chanState, chanLog, failedLog,
                   alert_history>>
    /\ UNCHANGED nonAlert

\* The steps the event loop takes whenever they are possible.
AlertProgress ==
    \/ CheckShouldAlert
    \/ SendAlerts
    \/ \E c \in AlertChannels : StartChannel(c)
    \/ \E c \in AlertChannels : FinishChannel(c)
    \/ AwaitGather
    \/ ProcessAnomaliesReturn

AlertNext ==
    \/ AlertProgress
    \/ \E c \in AlertChannels : HangChannel(c)

AlertIdle == AlertStart(<<>>)

(***************************************************************************)
(* AIDeploymentManager.deploy                                              *)
(***************************************************************************)

\* Calls of deploy followed.
MaxDeploys == 3

Strategies == {"canary", "blue_green", "rolling"}

\* The steps of deploy that may raise.
DeploySteps == {"pre_checks", "strategy", "execute", "analyze", "record"}

DeploySpecs == [risk_level : {"high", "low"}, size : {"large", "small"}]

\* _run_pre_deployment_checks lines 106-111: the checks that are run
PreChecks ==
    {"resource_availability", "system_health", "dependency_health",
     "security_compliance"}

\* _run_pre_deployment_checks line 114: all_passed
AllPassed_Any(checks) == \E c \in PreChecks : checks[c]

AllPassed(checks) == \A c \in PreChecks : checks[c]

NoDeployResponse ==
    [status |-> "none", stage |-> "none", error |-> FALSE,
     rollback_status |-> "none", spec |-> 0]

DeployStart ==
    /\ gpc = "idle"
    /\ gcalls = 0
    /\ gspec = [risk_level |-> "low", size |-> "small"]
    /\ gfault = "none"
    /\ gprecheck = TRUE
    /\ gchecks = [c \in PreChecks |-> TRUE]
    /\ gstrategy = "none"
    /\ gresult = FALSE
    /\ gresponse = NoDeployResponse
    /\ deployment_history = <<>>

\* deploy lines 96-102: where an exception raised inside the try goes.
DeployExcept_Propagate == "raised"

DeployExcept == "except"

\* recent_deployments = self.deployment_history[-10:]
RecentDeployments(h) ==
    SubSeq(h, IF Len(h) > 10 THEN Len(h) - 9 ELSE 1, Len(h))

\* _determine_deployment_strategy lines 201-229
DetermineDeploymentStrategy(spec, h) ==
    LET recent == RecentDeployments(h)
        rolling == {i \in 1..Len(recent) : recent[i].strategy = "rolling"}
        succeeded == {i \in rolling : recent[i].success}
        rollingRateOver80 ==
            /\ rolling # {}
            /\ 10 * Cardinality(succeeded) > 8 * Cardinality(rolling)
    IN  IF spec.risk_level = "high" THEN "canary"
        ELSE IF spec.size = "large" THEN "blue_green"
        ELSE IF rollingRateOver80 THEN "rolling"
        ELSE "canary"

\* deploy is called with a deployment spec.
DeployCall ==
    /\ gpc = "idle"
    /\ gcalls < MaxDeploys
    /\ gcalls' = gcalls + 1
    /\ \E spec \in DeploySpecs, fault \in DeploySteps \cup {"none"},
          checks \in [PreChecks -> BOOLEAN] :
        /\ gspec' = spec
        /\ gfault' = fault
        /\ gchecks' = checks
        /\ gprecheck' = AllPassed(checks)
    /\ gstrategy' = "none"
    /\ gresult' = FALSE
    /\ gresponse' = NoDeployResponse
    /\ gpc' = "pre_checks"
    /\ UNCHANGED deployment_history
    /\ UNCHANGED nonDeploy

\* deploy lines 61-69
RunPreDeploymentChecks ==
    /\ gpc = "pre_checks"
    /\ IF gfault = "pre_checks"
       THEN /\ gpc' = DeployExcept
            /\ gresponse' = gresponse
       ELSE IF ~gprecheck
       THEN /\ gpc' = "idle"
            /\ gresponse' = [NoDeployResponse EXCEPT
                                !.status = "failed",
                                !.stage = "pre-deployment",
                                !.spec = gcalls]
       ELSE /\ gpc' = "strategy"
            /\ gresponse' = gresponse
    /\ UNCHANGED <<gcalls, gspec, gfault, gprecheck, gchecks, gstrategy, gresult,
                   deployment_history>>
    /\ UNCHANGED nonDeploy

\* deploy lines 71-73
DetermineStrategy ==
    /\ gpc = "strategy"
    /\ IF gfault = "strategy"
       THEN /\ gpc' = DeployExcept
            /\ gstrategy' = gstrategy
       ELSE /\ gpc' = "execute"
            /\ gstrategy' = DetermineDeploymentStrategy(gspec,
                                                        deployment_history)
    /\ UNCHANGED <<gcalls, gspec, gfault, gprecheck, gchecks, gresult, gresponse,
                   deployment_history>>
    /\ UNCHANGED nonDeploy

\* deploy lines 75-81: the deployment is executed by the selected strategy.
ExecuteDeployment ==
    /\ gpc = "execute"
    /\ IF gfault = "execute"
       THEN /\ gpc' = DeployExcept
            /\ gresult' = gresult
       ELSE /\ gpc' = "analyze"
            /\ \E success \in BOOLEAN : gresult' = success
    /\ UNCHANGED <<gcalls, gspec, gfault, gprecheck, gchecks, gstrategy, gresponse,
                   deployment_history>>
    /\ UNCHANGED nonDeploy

\* deploy lines 83-84
AnalyzeDeployment ==
    /\ gpc = "analyze"
    /\ gpc' = IF gfault = "analyze" THEN DeployExcept ELSE "record"
    /\ UNCHANGED <<gcalls, gspec, gfault, gprecheck, gchecks, gstrategy, gresult,
                   gresponse, deployment_history>>
    /\ UNCHANGED nonDeploy

\* deploy lines 86-94: the deployment is recorded and the result returned.
RecordDeployment ==
    /\ gpc = "record"
    /\ IF gfault = "record"
       THEN /\ gpc' = DeployExcept
            /\ UNCHANGED <<deployment_history, gresponse>>
       ELSE /\ gpc' = "idle"
            /\ deployment_history' =
                   Append(deployment_history,
                          [strategy |-> gstrategy, success |-> gresult])
            /\ gresponse' = [NoDeployResponse EXCEPT
                                !.status = IF gresult THEN "success"
                                           ELSE "failed",
                                !.spec = gcalls]
    /\ UNCHANGED <<gcalls, gspec, gfault, gprecheck, gchecks, gstrategy, gresult>>
    /\ UNCHANGED nonDeploy

\* deploy lines 96-102: the except clause; _handle_rollback reports how
\* the rollback of the deployment spec ended.
HandleRollback ==
    /\ gpc = "except"
    /\ \E outcome \in {"success", "failed"} :
        gresponse' = [NoDeployResponse EXCEPT
                         !.status = "failed",
                         !.error = TRUE,
                         !.rollback_status = outcome,
                         !.spec = gcalls]
    /\ gpc' = "idle"
    /\ UNCHANGED <<gcalls, gspec, gfault, gprecheck, gchecks, gstrategy, gresult,
                   deployment_history>>
    /\ UNCHANGED nonDeploy

DeployNext ==
    \/ DeployCall
    \/ RunPreDeploymentChecks
    \/ DetermineStrategy
    \/ ExecuteDeployment
    \/ AnalyzeDeployment
    \/ RecordDeployment
    \/ HandleRollback

(***************************************************************************)
(* AIAnomalyDetector._calculate_severity on the 0-100 scale                *)
(***************************************************************************)

\* The largest score of the 0-100 scale.
MaxPercent == 100

PercentScores == 0..MaxPercent

SeverityStart ==
    /\ sevScore = -1
    /\ sevBand = "none"
    /\ sevPrevScore = -1
    /\ sevPrevBand = "none"

\* _calculate_severity(value) with value given on the 0-100 scale;
\* CalculateSeverity takes hundredths.
CalculateSeverityCall ==
    /\ \E value \in PercentScores :
        /\ sevScore' = value
        /\ sevBand' = CalculateSeverity(value * 100)
    /\ sevPrevScore' = sevScore
    /\ sevPrevBand' = sevBand
    /\ UNCHANGED nonSeverity

SeverityNext == CalculateSeverityCall

(***************************************************************************)
(* Two rollouts run by manage_canary side by side                          *)
(***************************************************************************)

\* Longest stage list of the two rollouts.
MaxIsoStages == 2

IsoStageIds == 1..MaxIsoStages

Rollouts == {1, 2}

IsoConfig == [training_period_days |-> 2, minimum_datapoints |-> 2]

\* manage_canary line 30: the loop variable is a local of the coroutine,
\* one per run.
StageSlot_Field(r) == 1

StageSlot(r) == r

\* The detector whose windows a rollout feeds: its own.
DetectorOf(r) == r

\* _check_metric_anomaly lines 74-78: the model is fitted on the window
\* and scores the current value, which is an outlier when at most half of
\* the window has it.
ModelScore(points, value) ==
    IF 2 * Cardinality({i \in 1..Len(points) : points[i].value = value})
           <= Len(points)
    THEN -90 ELSE -5

\* The worst severity detect_anomalies reports for the latency sample.
LatencySeverity(window, value) ==
    LET found == IF EnoughData(window, IsoConfig)
                 THEN CheckMetricAnomaly("latency", value,
                                         ModelScore(window, value), window)
                 ELSE <<>>
    IN  IF found = <<>> THEN "none" ELSE found[1].severity

IsoStart(n, samples, negAt) ==
    /\ isoN = n
    /\ isoSamples = samples
    /\ isoNegAt = negAt
    /\ isoPc = [r \in Rollouts |-> "loop"]
    /\ isoState = [r \in Rollouts |-> "InProgress"]
    /\ isoStage = [r \in Rollouts |-> 0]
    /\ isoDecisions = [r \in Rollouts |-> <<>>]
    /\ isoHistory = [r \in Rollouts |-> <<>>]
    /\ isoFed = [r \in Rollouts |-> <<>>]
    /\ isoTurn = 0

\* manage_canary lines 30 and 55: the for statement of rollout r.
IsoLoopHead(r) ==
    /\ isoPc[r] = "loop"
    /\ LET i == isoStage[StageSlot(r)]
       IN  IF i < isoN[r]
           THEN /\ isoStage' = [isoStage EXCEPT ![StageSlot(r)] = NextStage(i)]
                /\ isoPc' = [isoPc EXCEPT ![r] = "monitor"]
                /\ isoState' = isoState
           ELSE /\ isoStage' = isoStage
                /\ isoPc' = [isoPc EXCEPT ![r] = "done"]
                /\ isoState' = [isoState EXCEPT ![r] = "Promoted"]
    /\ isoTurn' = r
    /\ UNCHANGED <<isoN, isoSamples, isoNegAt, isoDecisions, isoHistory,
                   isoFed>>
    /\ UNCHANGED nonIso

\* manage_canary lines 31-40: the stage of rollout r is executed, its
\* sample goes to the detector, and a failed stage ends the rollout.
IsoMonitor(r) ==
    /\ isoPc[r] = "monitor"
    /\ LET i == isoStage[StageSlot(r)]
           value == isoSamples[r][i]
           d == DetectorOf(r)
           window == Observe(isoHistory[d], value, 0, IsoConfig)
           cause == MonitorCause(FALSE, "none",
                                 LatencySeverity(window, value))
           sr == [success |-> (cause = "ok"), cause |-> cause]
       IN  /\ isoHistory' = [isoHistory EXCEPT ![d] = window]
           /\ isoFed' = [isoFed EXCEPT ![r] = Append(@, value)]
           /\ IF AfterStage(sr) = "failure"
              THEN /\ isoPc' = [isoPc EXCEPT ![r] = "done"]
                   /\ isoState' = [isoState EXCEPT ![r] = "RolledBack"]
              ELSE /\ isoPc' = [isoPc EXCEPT ![r] = "analyze"]
                   /\ isoState' = isoState
    /\ isoTurn' = r
    /\ UNCHANGED <<isoN, isoSamples, isoNegAt, isoStage, isoDecisions>>
    /\ UNCHANGED nonIso

\* manage_canary lines 42-52: the Decision of the stage of rollout r.
IsoAnalyze(r) ==
    /\ isoPc[r] = "analyze"
    /\ LET i == isoStage[StageSlot(r)]
           an == [continue_rollout |-> (isoNegAt[r] # i), set |-> TRUE]
       IN  /\ isoDecisions' =
                  [isoDecisions EXCEPT
                      ![r] = Append(@, [stage |-> i,
                                        continue |-> an.continue_rollout])]
           /\ IF AfterAnalysis(an) = "failure"
              THEN /\ isoPc' = [isoPc EXCEPT ![r] = "done"]
                   /\ isoState' = [isoState EXCEPT ![r] = "RolledBack"]
              ELSE /\ isoPc' = [isoPc EXCEPT ![r] = "loop"]
                   /\ isoState' = isoState
    /\ isoTurn' = r
    /\ UNCHANGED <<isoN, isoSamples, isoNegAt, isoStage, isoHistory, isoFed>>
    /\ UNCHANGED nonIso

IsoNext ==
    \E r \in Rollouts :
        \/ IsoLoopHead(r)
        \/ IsoMonitor(r)
        \/ IsoAnalyze(r)

IsoIdle ==
    IsoStart([r \in Rollouts |-> 1],
             [r \in Rollouts |-> [i \in IsoStageIds |-> 10]],
             [r \in Rollouts |-> 0])

(***************************************************************************)
(* CanaryAnalyzer._determine_impact_level, called on its own               *)
(***************************************************************************)

\* Largest magnitude of the differences handed over.
MaxDiff == 25

Differences == (0 - MaxDiff)..MaxDiff

\* Configured cutoffs, high above medium above low.
ImpactThresholdConfigs ==
    {DefaultImpactThresholds,
     [high |-> 3, medium |-> 2, low |-> 1],
     [high |-> 12, medium |-> 6, low |-> 2]}

ImpactStart(thresholds) ==
    /\ impThresholds = thresholds
    /\ impDiff = 0
    /\ impLevel = "none"
    /\ impPrevDiff = 0
    /\ impPrevLevel = "none"

\* _determine_impact_level(difference)
DetermineImpactLevelCall ==
    /\ \E difference \in Differences :
        /\ impDiff' = difference
        /\ impLevel' = ImpactLevelFor(difference, impThresholds)
    /\ impPrevDiff' = impDiff
    /\ impPrevLevel' = impLevel
    /\ UNCHANGED impThresholds
    /\ UNCHANGED nonImpact

ImpactNext == DetermineImpactLevelCall

(***************************************************************************)
(* AIAnomalyDetector._calculate_confidence, called on its own              *)
(***************************************************************************)

\* The outlier scores handed over are the multiples of 0.05 up to
\* MaxScoreSteps steps either side of 0, in hundredths.
MaxScoreSteps == 22

OutlierScores == {k * 5 : k \in (0 - MaxScoreSteps)..MaxScoreSteps}

ConfidenceStart ==
    /\ confScore = 0
    /\ confValue = -1
    /\ confPrevScore = 0
    /\ confPrevValue = -1

\* _calculate_confidence(anomaly_score)
CalculateConfidenceCall ==
    /\ \E score \in OutlierScores :
        /\ confScore' = score
        /\ confValue' = CalculateConfidence(score)
    /\ confPrevScore' = confScore
    /\ confPrevValue' = confValue
    /\ UNCHANGED nonConfidence

ConfidenceNext == CalculateConfidenceCall

(***************************************************************************)
(* process_anomalies calls interleaved on one AlertManager                 *)
(***************************************************************************)

\* Latest reading of the clock, in seconds.
MaxClock == 3

\* config['alert_cooldown'], in seconds
AlertCooldown == 2

\* The process_anomalies coroutines on the one event loop.
Callers == {1, 2}

NoAlert == [metric |-> "none", timestamp |-> 0, by |-> 0]

CoInputs ==
    {[metric |-> "cpu_usage", severity |-> "high"],
     [metric |-> "error_rate", severity |-> "high"],
     [metric |-> "cpu_usage", severity |-> "low"]}

CoLists == UNION {[1..n -> CoInputs] : n \in 0..MaxAnomalies}

CoStart(queues) ==
    /\ coPc = [c \in Callers |-> "loop"]
    /\ coQueue = queues
    /\ coIdx = [c \in Callers |-> 1]
    /\ coAlert = [c \in Callers |-> NoAlert]
    /\ coHistory = <<>>
    /\ coNow = 0

CoIdle == CoStart([c \in Callers |-> <<>>])

\* _should_alert lines 37-42: the alerts of the metric in the history that
\* are younger than the cooldown
RecentAlerts(alerts, now, metric) ==
    {i \in 1..Len(alerts) :
        /\ alerts[i].metric = metric
        /\ now - alerts[i].timestamp < AlertCooldown}

\* process_anomalies lines 28-30: _should_alert and _create_alert run without
\* giving up the event loop; the coroutine is then suspended in _send_alerts.
CoCheckShouldAlert(c) ==
    /\ coPc[c] = "loop"
    /\ coIdx[c] <= Len(coQueue[c])
    /\ LET anomaly_in == coQueue[c][coIdx[c]]
           recent == RecentAlerts(coHistory, coNow, anomaly_in.metric) # {}
       IN  IF ShouldAlert(anomaly_in, recent)
           THEN /\ coAlert' = [coAlert EXCEPT
                                 ![c] = [metric |-> anomaly_in.metric,
                                         timestamp |-> coNow, by |-> c]]
                /\ coPc' = [coPc EXCEPT ![c] = "send"]
                /\ coIdx' = coIdx
           ELSE /\ coIdx' = [coIdx EXCEPT ![c] = @ + 1]
                /\ UNCHANGED <<coAlert, coPc>>
    /\ UNCHANGED <<coQueue, coHistory, coNow>>
    /\ UNCHANGED nonConcurrent

\* process_anomalies lines 31-32: _send_alerts has returned and the alert is
\* appended to the history.
CoSendAlerts(c) ==
    /\ coPc[c] = "send"
    /\ coHistory' = Append(coHistory, coAlert[c])
    /\ coAlert' = [coAlert EXCEPT ![c] = NoAlert]
    /\ coIdx' = [coIdx EXCEPT ![c] = @ + 1]
    /\ coPc' = [coPc EXCEPT ![c] = "loop"]
    /\ UNCHANGED <<coQueue, coNow>>
    /\ UNCHANGED nonConcurrent

\* process_anomalies line 28: the list is exhausted.
CoReturn(c) ==
    /\ coPc[c] = "loop"
    /\ coIdx[c] > Len(coQueue[c])
    /\ coPc' = [coPc EXCEPT ![c] = "done"]
    /\ UNCHANGED <<coQueue, coIdx, coAlert, coHistory, coNow>>
    /\ UNCHANGED nonConcurrent

\* A second passes.
CoTick ==
    /\ coNow < MaxClock
    /\ \E c \in Callers : coPc[c] # "done"
    /\ coNow' = coNow + 1
    /\ UNCHANGED <<coPc, coQueue, coIdx, coAlert, coHistory>>
    /\ UNCHANGED nonConcurrent

ConcurrentNext ==
    \/ \E c \in Callers : CoCheckShouldAlert(c)
    \/ \E c \in Callers : CoSendAlerts(c)
    \/ \E c \in Callers : CoReturn(c)
    \/ CoTick

\* The initial state of the harnesses that are not running.
HarnessIdle ==
    /\ ImpactStart(DefaultImpactThresholds)
    /\ ConfidenceStart
    /\ CoIdle

\* The initial state of the components that are not running.
LaterIdle ==
    /\ AlertIdle
    /\ DeployStart
    /\ SeverityStart
    /\ IsoIdle
    /\ HarnessIdle

(***************************************************************************)
(* Specifications                                                          *)
(***************************************************************************)

\* The components beside controller and analyzer, not yet called.
OthersIdle ==
    /\ RollbackStart(0)
    /\ DetectorStart([training_period_days |-> 2, minimum_datapoints |-> 2])
    /\ DecisionIdle
    /\ LaterIdle

RollbackInit ==
    /\ CanaryStart(0)
    /\ AnalyzerStart("none", "none")
    /\ \E n \in 0..MaxSteps : RollbackStart(n)
    /\ DetectorStart([training_period_days |-> 2, minimum_datapoints |-> 2])
    /\ DecisionIdle
    /\ LaterIdle

SpecRollback == RollbackInit /\ [][RollbackNext]_vars

DetectorInit ==
    /\ CanaryStart(0)
    /\ AnalyzerStart("none", "none")
    /\ RollbackStart(0)
    /\ \E cfg \in DetectorConfigs : DetectorStart(cfg)
    /\ DecisionIdle
    /\ LaterIdle

SpecDetector == DetectorInit /\ [][DetectorNext]_vars

DecisionInit ==
    /\ CanaryStart(0)
    /\ AnalyzerStart("none", "none")
    /\ RollbackStart(0)
    /\ DetectorStart([training_period_days |-> 2, minimum_datapoints |-> 2])
    /\ \E cases \in [TrackedMetrics -> PrimaryCases \cup SecondaryCases],
          t \in {5, 10}, w \in WeightConfigs :
        /\ \A m \in TrackedMetrics : cases[m] \in CasesOf(m)
        /\ DecisionStart([m \in TrackedMetrics |-> cases[m][1]],
                         [m \in TrackedMetrics |-> cases[m][2]], t, w)
    /\ LaterIdle

SpecDecision == DecisionInit /\ [][DecisionNext]_vars

AlertInit ==
    /\ CanaryStart(0)
    /\ AnalyzerStart("none", "none")
    /\ RollbackStart(0)
    /\ DetectorStart([training_period_days |-> 2, minimum_datapoints |-> 2])
    /\ DecisionIdle
    /\ \E anomalies \in AnomalyLists : AlertStart(anomalies)
    /\ DeployStart
    /\ SeverityStart
    /\ IsoIdle
    /\ HarnessIdle

SpecAlert == AlertInit /\ [][AlertNext]_vars

\* The event loop runs every task that can run; nothing makes a send that
\* hangs complete.
SpecAlertFair == SpecAlert /\ WF_vars(AlertProgress)

\* Every component idle.
AllIdle ==
    /\ CanaryStart(0)
    /\ AnalyzerStart("none", "none")
    /\ OthersIdle

SpecDeploy == AllIdle /\ [][DeployNext]_vars

SpecSeverity == AllIdle /\ [][SeverityNext]_vars

\* Everything idle but the harnesses.
BesidesHarness ==
    /\ CanaryStart(0)
    /\ AnalyzerStart("none", "none")
    /\ RollbackStart(0)
    /\ DetectorStart([training_period_days |-> 2, minimum_datapoints |-> 2])
    /\ DecisionIdle
    /\ AlertIdle
    /\ DeployStart
    /\ SeverityStart
    /\ IsoIdle

ImpactInit ==
    /\ BesidesHarness
    /\ \E thresholds \in ImpactThresholdConfigs : ImpactStart(thresholds)
    /\ ConfidenceStart
    /\ CoIdle

SpecImpact == ImpactInit /\ [][ImpactNext]_vars

SpecConfidence == AllIdle /\ [][ConfidenceNext]_vars

ConcurrentInit ==
    /\ BesidesHarness
    /\ ImpactStart(DefaultImpactThresholds)
    /\ ConfidenceStart
    /\ \E queues \in [Callers -> CoLists] : CoStart(queues)

SpecConcurrent == ConcurrentInit /\ [][ConcurrentNext]_vars

IsoInit ==
    /\ CanaryStart(0)
    /\ AnalyzerStart("none", "none")
    /\ RollbackStart(0)
    /\ DetectorStart([training_period_days |-> 2, minimum_datapoints |-> 2])
    /\ DecisionIdle
    /\ AlertIdle
    /\ DeployStart
    /\ SeverityStart
    /\ HarnessIdle
    /\ \E n \in [Rollouts -> IsoStageIds],
          samples \in [Rollouts -> [IsoStageIds -> MetricValues]],
          negAt \in [Rollouts -> 0..MaxIsoStages] :
        IsoStart(n, samples, negAt)

SpecIsolation == IsoInit /\ [][IsoNext]_vars

AnalyzerInit ==
    /\ CanaryStart(0)
    /\ \E b \in FailPoints, c \in FailPoints : AnalyzerStart(b, c)
    /\ OthersIdle

AnalyzerNext ==
    \/ CollectBaselineMetrics
    \/ CollectCanaryMetrics
    \/ AnalyzePerformance
    \/ AnalyzeErrors
    \/ AnalyzeResources
    \/ AnalyzeUserImpact
    \/ MakePromotionDecision

SpecAnalyzer == AnalyzerInit /\ [][AnalyzerNext]_vars

Init ==
    /\ \E n \in 0..MaxStages : CanaryStart(n)
    /\ AnalyzerStart("none", "none")
    /\ OthersIdle

Next ==
    \/ InitializeCanary
    \/ LoopHead
    \/ UpdateTrafficDistribution
    \/ MonitorCanaryStage
    \/ CheckStageResult
    \/ AnalyzeCanaryMetrics
    \/ CheckAnalysis
    \/ UpdateCanaryStatus
    \/ FinalizeCanary
    \/ Promote
    \/ HandleCanaryFailure
    \/ HandleCanaryError
    \/ Rollback
    \/ RequestCancel

Spec == Init /\ [][Next]_vars

(***************************************************************************)
(* Properties of the staged canary state machine                           *)
(***************************************************************************)

Promotion == {"Promoting", "Promoted"}

Aborted == {"RollingBack", "RolledBack", "Failed"}

\* C1: the index of the stage being executed never decreases, moves one
\* stage at a time in list order, no stage's traffic update is issued twice,
\* and the index is frozen once the rollout is Promoted, RolledBack or Failed.
StageIndexMonotone ==
    [][ /\ stageIdx' >= stageIdx
        /\ (stageIdx' # stageIdx => stageIdx' = stageIdx + 1)
        /\ \A i \in StageIds : trafficN'[i] <= 1
        /\ (state \in Terminal => stageIdx' = stageIdx) ]_vars

StageIndexMonotone_Witness ==
    /\ state = "RolledBack"
    /\ stageIdx = 2
    /\ trafficN[1] = 1

\* C2: stage i+1 is started, or the rollout is promoting/promoted, only when
\* stage i has a Decision and that Decision is positive.
AdvanceOnlyAfterPositiveDecision ==
    \A i \in StageIds :
        (i <= nStages /\ (stageIdx > i \/ state \in Promotion))
            => (decisionN[i] >= 1 /\ decision[i] = "pos")

AdvanceOnlyAfterPositiveDecision_Witness ==
    /\ nStages = 2
    /\ state = "Promoted"
    /\ decision[1] = "pos"
    /\ decision[2] = "pos"

\* C3 as stated: every stage the rollout has executed and is done with has
\* exactly one Decision.
OneDecisionPerStage ==
    \A i \in StageIds :
        (monitorN[i] > 0 /\ (stageIdx > i \/ pc = "done"))
            => decisionN[i] = 1

\* C3 amended: a stage never has more than one Decision; every stage the
\* rollout advanced past or promoted from has exactly one; a stage whose
\* execution failed has none.
AtMostOneDecisionPerStage ==
    \A i \in StageIds :
        /\ decisionN[i] <= 1
        /\ (i <= nStages /\ (stageIdx > i \/ state \in Promotion))
              => decisionN[i] = 1
        /\ (i = stageIdx /\ ~stage_result.success) => decisionN[i] = 0

AtMostOneDecisionPerStage_Witness ==
    /\ pc = "done"
    /\ stageIdx = 2
    /\ stage_result.cause = "anomaly"
    /\ decisionN[1] = 1
    /\ decisionN[2] = 0

\* C4: once the rollout is Promoted, RolledBack or Failed, its state, stage
\* index, history, Decisions and abort reason never change again.
TerminalIsFinal ==
    [][ (state \in Terminal) =>
            UNCHANGED <<state, stageIdx, history, decisionN, decision,
                        trafficN, monitorN, abortReason>> ]_vars

TerminalIsFinal_Witness ==
    /\ state = "Failed"
    /\ pc = "done"
    /\ stageIdx = 1
    /\ nStages = 3

\* C5: a stage with a high or critical anomaly or a negative Decision is the
\* last stage executed: the rollout goes to RollingBack and on to RolledBack
\* or Failed, no later stage gets traffic and the rollout is never promoted.
AbortOnAnomalyOrNegativeDecision ==
    \A i \in StageIds :
        (anomaly[i] \in AbortSeverities \/ decision[i] = "neg") =>
            /\ stageIdx = i
            /\ state \notin Promotion
            /\ \A j \in StageIds : j > i => trafficN[j] = 0
            /\ pc \in {"check_stage", "check_analysis", "failure", "error",
                       "rollback", "done"}
            /\ (pc = "rollback" => state = "RollingBack")
            /\ (pc = "done" => state \in {"RolledBack", "Failed"})

AbortOnAnomalyOrNegativeDecision_Witness ==
    /\ state = "RollingBack"
    /\ stageIdx = 1
    /\ nStages = 2
    /\ decision[1] = "neg"
    /\ anomaly[1] = "none"

\* C6: the rollout is Promoting or Promoted only when the loop is past the
\* last stage and every configured stage, in order, had its traffic update,
\* its monitoring, a positive Decision and its result merged.
PromotedOnlyAfterAllStages ==
    state \in Promotion =>
        /\ stageIdx = nStages
        /\ Len(history) = nStages
        /\ \A i \in 1..nStages :
            /\ trafficN[i] = 1
            /\ monitorN[i] = 1
            /\ decision[i] = "pos"
            /\ history[i] = [stage |-> i, decision |-> "pos"]

PromotedOnlyAfterAllStages_Witness ==
    /\ state = "Promoting"
    /\ nStages = 3
    /\ Len(history) = 3

StagesStrictlySequential ==
    \A i \in StageIds :
        /\ (monitorN[i] > 0 => trafficN[i] > 0)
        /\ (decisionN[i] > 0 => monitorN[i] > 0)
        /\ (i > 1 /\ trafficN[i] > 0) =>
              /\ trafficN[i - 1] = 1
              /\ monitorN[i - 1] = 1
              /\ decisionN[i - 1] = 1
              /\ Len(history) >= i - 1

StagesStrictlySequential_Witness ==
    /\ pc = "monitor"
    /\ stageIdx = 3
    /\ trafficN[3] = 1
    /\ monitorN[3] = 0

\* C9: once a cancel request is pending the rollout does not advance to a
\* further stage and does not become Promoting or Promoted.
CancelStopsRollout ==
    [][ cancelRequested =>
            /\ stageIdx' = stageIdx
            /\ state' \notin Promotion ]_vars

(***************************************************************************)
(* Properties of the canary analysis                                       *)
(***************************************************************************)

CollectionFailed == baseFailAt # "none" \/ canFailAt # "none"

\* C10: when a baseline or canary query fails, analyze_canary returns the
\* error response: no analysis with a decision is returned, the outcome is
\* not a promote, and a category is compared only when both sides have it.
FailedCollectionNeverPromotes ==
    /\ computed \subseteq (baseline_metrics \cap canary_metrics)
    /\ CollectionFailed =>
          /\ response.kind \in {"none", "error"}
          /\ ~response.promote
          /\ apc \notin {"analyze_user_impact", "decide"}

FailedCollectionNeverPromotes_Witness ==
    /\ apc = "done"
    /\ baseFailAt = "none"
    /\ canFailAt = "error_types"
    /\ computed = {"performance"}
    /\ response.kind = "error"

(***************************************************************************)
(* Properties of the rollback sequencer                                    *)
(***************************************************************************)

Applied(k) == \E i \in 1..Len(rlog) : rlog[i] = <<"apply", k>>

CallCount(kind, k) == Cardinality({i \in 1..Len(rlog) : rlog[i] = <<kind, k>>})

FailedResults == {i \in 1..Len(results) : ~results[i].success}

\* C11: the steps are applied in plan order, each at most once and none
\* skipped, and no step is applied after a step that returned failure,
\* raised or failed its check.
RollbackHaltsAtFirstFailure ==
    /\ \A i, j \in 1..Len(rlog) :
          (i < j /\ rlog[i][1] = "apply" /\ rlog[j][1] = "apply")
              => rlog[i][2] < rlog[j][2]
    /\ \A k \in StepIds : (k > 1 /\ Applied(k)) => Applied(k - 1)
    /\ \A k \in StepIds : Applied(k) => k <= planLen
    /\ \A i \in FailedResults :
          \A k \in StepIds : k > results[i].step => ~Applied(k)

RollbackHaltsAtFirstFailure_Witness ==
    /\ planLen = 3
    /\ rpc = "done"
    /\ Len(results) = 2
    /\ results[2].how = "fail"
    /\ ~Applied(3)

StepVerifiedBeforeNext ==
    /\ \A i \in 1..Len(rlog) :
          /\ (rlog[i][1] = "apply" /\ rlog[i][2] > 1) =>
                /\ i >= 3
                /\ rlog[i - 1] = <<"verify", rlog[i][2] - 1>>
                /\ rlog[i - 2] = <<"apply", rlog[i][2] - 1>>
                /\ Len(results) >= rlog[i][2] - 1
                /\ results[rlog[i][2] - 1].how = "ok"
          /\ rlog[i][1] = "verify" =>
                (i >= 2 /\ rlog[i - 1] = <<"apply", rlog[i][2]>>)
    /\ \A i \in 1..Len(results) :
          results[i].how \in {"fail", "raise", "verify_fail"} =>
              /\ i = Len(results)
              /\ rpc \in {"exec_return", "verify", "record", "done"}
              /\ \A k \in StepIds : k > i => ~Applied(k)

StepVerifiedBeforeNext_Witness ==
    /\ planLen = 3
    /\ rpc = "exec_return"
    /\ rlog = << <<"apply", 1>>, <<"verify", 1>>,
                 <<"apply", 2>>, <<"verify", 2>> >>
    /\ results[2].how = "verify_fail"

\* C14: when step k is the first to fail the outcome has steps_executed = k,
\* success false and k results, the last one the failed step, and no later
\* step was applied; when no step fails steps_executed = n and success true.
RollbackOutcomeShape ==
    rollback_result.set =>
        /\ rollback_result.steps_executed = Len(results)
        /\ \A i \in 1..Len(results) : results[i].step = i
        /\ IF FailedResults # {}
           THEN \E k \in 1..planLen :
                    /\ FailedResults = {k}
                    /\ Len(results) = k
                    /\ rollback_result.steps_executed = k
                    /\ ~rollback_result.success
                    /\ \A j \in StepIds : j > k => ~Applied(j)
           ELSE /\ rollback_result.steps_executed = planLen
                /\ rollback_result.success

RollbackOutcomeShape_Witness ==
    /\ planLen = 3
    /\ rollback_result.set
    /\ rollback_result.steps_executed = 2
    /\ ~rollback_result.success
    /\ results[2].how = "verify_fail"
    /\ rpc = "verify"

(***************************************************************************)
(* Properties of the anomaly detector                                      *)
(***************************************************************************)

AnomaliesOf(m) ==
    {i \in 1..Len(lastAnomalies) : lastAnomalies[i].metric = m}

\* C15: a metric observed while its window, new sample included and stale
\* samples removed, has fewer than minimum_datapoints points is not scored,
\* yields no anomaly and the call does not raise; the first
\* minimum_datapoints - 1 calls of a fresh detector return no anomaly.
NoAnomalyOnInsufficientData ==
    /\ \A m \in DOMAIN lastMetrics :
          Len(dhistory[m]) < dconfig.minimum_datapoints =>
              /\ m \notin lastChecked
              /\ AnomaliesOf(m) = {}
    /\ ~lastRaised
    /\ dcalls < dconfig.minimum_datapoints => lastAnomalies = <<>>

NoAnomalyOnInsufficientData_Witness ==
    /\ dcalls = 2
    /\ dconfig.minimum_datapoints = 3
    /\ DOMAIN lastMetrics = {"cpu_usage"}
    /\ lastMetrics["cpu_usage"] = 95
    /\ Len(dhistory["cpu_usage"]) = 2
    /\ lastAnomalies = <<>>

\* C16: after a call, the window of every metric of that call holds no
\* point older than training_period_days at the time of the call.
NoStaleSamplesAfterCall ==
    \A m \in DOMAIN lastMetrics :
        \A i \in 1..Len(dhistory[m]) :
            dhistory[m][i].timestamp >= dnow - dconfig.training_period_days

NoStaleSamplesAfterCall_Witness ==
    /\ dconfig.training_period_days = 2
    /\ "cpu_usage" \in DOMAIN lastMetrics
    /\ lastEvicted["cpu_usage"] = 2
    /\ Len(dhistory["cpu_usage"]) = 1

\* C17: the returned list holds at most one anomaly for each metric of the
\* call and none for other metrics; a call with one metric returns at most
\* one anomaly.
AtMostOneAnomalyPerMetric ==
    /\ \A m \in Metrics :
          Cardinality(AnomaliesOf(m))
              <= (IF m \in DOMAIN lastMetrics THEN 1 ELSE 0)
    /\ Cardinality(DOMAIN lastMetrics) = 1 => Len(lastAnomalies) <= 1

AtMostOneAnomalyPerMetric_Witness ==
    /\ DOMAIN lastMetrics = {"error_rate"}
    /\ Len(dhistory["error_rate"]) = 3
    /\ Len(lastAnomalies) = 1
    /\ lastAnomalies[1].metric = "error_rate"

(***************************************************************************)
(* Properties of the comparison and the promotion decision                 *)
(***************************************************************************)

\* C18: for every compared metric the recorded difference is 0 when the
\* baseline is 0, whatever the canary value, and otherwise
\* (canary - baseline) / baseline * 100.
DifferenceOfZeroBaselineIsZero ==
    \A m \in TrackedMetrics :
        sanalysis[m].set =>
            /\ sbase[m] = 0 => sanalysis[m].difference_percentage = 0
            /\ sbase[m] # 0 =>
                  sanalysis[m].difference_percentage * sbase[m]
                      = (scan[m] - sbase[m]) * 100

DifferenceOfZeroBaselineIsZero_Witness ==
    /\ spc = "resources"
    /\ sbase["latency"] = 0
    /\ scan["latency"] = 50
    /\ sanalysis["latency"].difference_percentage = 0
    /\ sbase["error_rate"] = 1
    /\ sanalysis["error_rate"].difference_percentage = 700

RaiseImpact(level) ==
    IF level = "insignificant" THEN "low"
    ELSE IF level = "low" THEN "medium"
    ELSE "high"

\* C19: raising the impact of one category by one step, the others fixed,
\* gives an overall score no higher than the one of the decision, and a
\* promoting verdict only if the decision promoted.
ScoreMonotoneInImpact ==
    (sdecision.set /\ \A k \in ScoreNames : sweights[k] >= 0) =>
        \A n \in ScoreNames :
            LET impacts == CategoryImpacts(sanalysis, suserImpact)
                raised == [impacts EXCEPT ![n] = RaiseImpact(@)]
                score == CalculateOverallScore(ScoresOf(raised), sweights)
            IN  /\ score <= sdecision.overall_score
                /\ score >= PromotionThreshold => sdecision.promote

ScoreMonotoneInImpact_Witness ==
    /\ sdecision.set
    /\ sweights.error_score = 3
    /\ CategoryImpacts(sanalysis, suserImpact).error_score = "low"
    /\ sdecision.overall_score = 925

\* C20: the verdict is promote exactly when the overall score is at least
\* the promotion threshold; a score equal to the threshold promotes.
PromoteIffScoreReachesThreshold ==
    sdecision.set =>
        (sdecision.promote <=> sdecision.overall_score >= PromotionThreshold)

PromoteIffScoreReachesThreshold_Witness ==
    /\ sdecision.set
    /\ sdecision.overall_score = PromotionThreshold
    /\ sdecision.promote

DefaultWeights ==
    [performance_score |-> 4, error_score |-> 3, resource_score |-> 2,
     user_impact_score |-> 1]

\* C21: whatever the category scores and the weights, negative ones and
\* ones that do not sum to 1 included, the overall score and the
\* confidence of a decision lie in [0,1] (0..1000 thousandths).
ScoreAndConfidenceInUnitInterval ==
    sdecision.set =>
        /\ sdecision.overall_score >= 0
        /\ sdecision.overall_score <= 1000
        /\ sdecision.confidence >= 0
        /\ sdecision.confidence <= 1000

ScoreAndConfidenceInUnitInterval_Witness ==
    /\ sdecision.set
    /\ sweights.performance_score + sweights.error_score
           + sweights.resource_score + sweights.user_impact_score > 10
    /\ sdecision.metrics_scores = [n \in ScoreNames |-> 100]
    /\ sdecision.confidence = 1000
    /\ sdecision.overall_score = 1000

SignificantCategories ==
    {n \in ScoreNames :
        ImpactRank(CategoryImpacts(sanalysis, suserImpact)[n]) > 0}

DeclarationPos(n) == CHOOSE i \in 1..Len(ScoreOrder) : ScoreOrder[i] = n

\* C22: the reasons of a decision are exactly the categories with a
\* significant impact, each once, by descending severity and, for equal
\* severities, in the declaration order performance, error, resource,
\* user impact.
ReasonsListSignificantBySeverity ==
    sdecision.set =>
        LET reasons == sdecision.reasons
            impacts == CategoryImpacts(sanalysis, suserImpact)
        IN  /\ {reasons[i] : i \in 1..Len(reasons)} = SignificantCategories
            /\ Len(reasons) = Cardinality(SignificantCategories)
            /\ \A i, j \in 1..Len(reasons) :
                   i < j =>
                       \/ ImpactRank(impacts[reasons[i]])
                              > ImpactRank(impacts[reasons[j]])
                       \/ /\ ImpactRank(impacts[reasons[i]])
                                 = ImpactRank(impacts[reasons[j]])
                          /\ DeclarationPos(reasons[i])
                                 < DeclarationPos(reasons[j])

ReasonsListSignificantBySeverity_Witness ==
    /\ sdecision.set
    /\ sdecision.reasons
           = <<"error_score", "performance_score", "user_impact_score">>
    /\ suserImpact = "low"
    /\ CategoryImpacts(sanalysis, suserImpact).performance_score = "low"

OnlyLatencyDeviates ==
    /\ sbase["latency"] = 100
    /\ scan["latency"] = 105
    /\ sthreshold = 10
    /\ \A m \in TrackedMetrics \ {"latency"} : sbase[m] = scan[m]
    /\ suserImpact = "insignificant"

\* C23: a canary whose only deviation is latency 105 against a baseline of
\* 100, with threshold 10, has difference 5, not significant, impact
\* insignificant, every category score 1.0 and, with the default weights,
\* is promoted.
SmallDeviationPromotes ==
    (sdecision.set /\ OnlyLatencyDeviates /\ sweights = DefaultWeights) =>
        /\ sanalysis["latency"].difference_percentage = 5
        /\ ~sanalysis["latency"].significant
        /\ sanalysis["latency"].impact = "insignificant"
        /\ \A n \in ScoreNames : sdecision.metrics_scores[n] = 100
        /\ sdecision.promote

SmallDeviationPromotes_Witness ==
    /\ sdecision.set
    /\ OnlyLatencyDeviates
    /\ sweights = DefaultWeights
    /\ sdecision.overall_score = 1000
    /\ sdecision.promote

\* C24: with the default weights an error rate of 8 against a baseline of
\* 1, threshold 5, has difference 700, significant, impact high, an error
\* score of 0, an overall score under the threshold and no promotion,
\* whatever the other categories are.
HighErrorImpactRejects ==
    (/\ sdecision.set
     /\ sbase["error_rate"] = 1
     /\ scan["error_rate"] = 8
     /\ sthreshold = 5
     /\ sweights = DefaultWeights) =>
        /\ sanalysis["error_rate"].difference_percentage = 700
        /\ sanalysis["error_rate"].significant
        /\ sanalysis["error_rate"].impact = "high"
        /\ sdecision.metrics_scores.error_score = 0
        /\ sdecision.overall_score < PromotionThreshold
        /\ ~sdecision.promote

HighErrorImpactRejects_Witness ==
    /\ sdecision.set
    /\ sbase["error_rate"] = 1
    /\ scan["error_rate"] = 8
    /\ sthreshold = 5
    /\ sweights = DefaultWeights
    /\ \A m \in TrackedMetrics \ {"error_rate"} : sbase[m] = scan[m]
    /\ suserImpact = "insignificant"
    /\ sdecision.overall_score = 700
    /\ ~sdecision.promote

(***************************************************************************)
(* Properties of the alert manager                                         *)
(***************************************************************************)

AppropriateChannels(severity) ==
    {c \in AlertChannels : IsChannelAppropriate(c, severity)}

Recorded(k) ==
    \E i \in 1..Len(alert_history) : alert_history[i].anomaly = k

\* C25: a send that raises on one channel never makes process_anomalies
\* raise; every appropriate channel of the alert has been attempted and
\* the alert is in the alert history once its dispatch is over.
DeliveryFailureNotPropagated ==
    /\ alertPc # "raised"
    /\ \A k \in 1..Len(alertQueue) :
           (k < alertIdx /\ failedLog[k] # {}) =>
               /\ Recorded(k)
               /\ chanLog[k] = AppropriateChannels(alertQueue[k].severity)

DeliveryFailureNotPropagated_Witness ==
    /\ alertPc = "done"
    /\ Len(alertQueue) = 2
    /\ failedLog[1] = {"email"}
    /\ chanLog[1] = {"email", "slack", "pagerduty"}
    /\ Recorded(1)
    /\ Recorded(2)

\* C26: a channel that never completes does not prevent the processing of
\* the next anomaly: every wait for the channels of an alert ends.
SlowChannelDoesNotBlock ==
    (alertPc = "gather") ~> (alertPc # "gather")

(***************************************************************************)
(* Properties of the deployment manager                                    *)
(***************************************************************************)

BandRank(band) ==
    IF band = "critical" THEN 4
    ELSE IF band = "high" THEN 3
    ELSE IF band = "medium" THEN 2
    ELSE IF band = "low" THEN 1
    ELSE 0

\* C29: on the 0-100 scale 95 is critical, 85 is high, 75 is medium and
\* 50 is low, and a larger score never gets a lower band.
SeverityBandsOnPercentScale ==
    /\ sevScore = 95 => sevBand = "critical"
    /\ sevScore = 85 => sevBand = "high"
    /\ sevScore = 75 => sevBand = "medium"
    /\ sevScore = 50 => sevBand = "low"
    /\ (sevPrevScore >= 0 /\ sevPrevScore <= sevScore) =>
           BandRank(sevPrevBand) <= BandRank(sevBand)

(***************************************************************************)
(* Exceptions raised during a stage                                        *)
(***************************************************************************)

\* An exception was raised in the stage being executed: inside
\* _execute_canary_stage (traffic update, monitoring), where it becomes a
\* failed stage result, or after it (comparison, decision), where it
\* reaches the except clause of manage_canary.
StageRaised ==
    /\ stageIdx \in StageIds
    /\ \/ pc = "error"
       \/ abortReason = "error"
       \/ stage_result.cause = "exception"

\* C30: after an exception raised during a stage the rollout never moves
\* to another stage and never enters Promoting or Promoted, and the
\* rollout ends rolled back or failed.
ExceptionAbortsStage ==
    /\ [][StageRaised => (stageIdx' = stageIdx /\ state' \notin Promotion)]_vars
    /\ []((StageRaised /\ pc = "done") => state \in {"RolledBack", "Failed"})

ExceptionAbortsStage_Witness ==
    /\ pc = "done"
    /\ nStages = 2
    /\ stageIdx = 1
    /\ stage_result.success
    /\ decisionN[1] = 0
    /\ abortReason = "error"
    /\ state = "RolledBack"

(***************************************************************************)
(* Isolation of concurrent rollouts                                        *)
(***************************************************************************)

RECURSIVE AloneRun(_, _, _, _)

\* What rollout r comes to when no other rollout runs: from stage k on,
\* with the window and the Decisions it has so far.
AloneRun(r, k, window, decisions) ==
    IF k > isoN[r]
    THEN [state |-> "Promoted", stage |-> isoN[r], decisions |-> decisions]
    ELSE LET w == Observe(window, isoSamples[r][k], 0, IsoConfig)
             sev == LatencySeverity(w, isoSamples[r][k])
         IN  IF sev \in AbortSeverities
             THEN [state |-> "RolledBack", stage |-> k,
                   decisions |-> decisions]
             ELSE IF isoNegAt[r] = k
             THEN [state |-> "RolledBack", stage |-> k,
                   decisions |-> Append(decisions,
                                        [stage |-> k, continue |-> FALSE])]
             ELSE AloneRun(r, k + 1, w,
                           Append(decisions,
                                  [stage |-> k, continue |-> TRUE]))

WindowValues(r) == [i \in 1..Len(isoHistory[r]) |-> isoHistory[r][i].value]

MutatingInit == Init \/ RollbackInit

MutatingNext == Next \/ RollbackNext

SpecMutating == MutatingInit /\ [][MutatingNext]_vars

\* The positions of rlog where step k was applied and read back right after.
VerifiedAt(k) ==
    {i \in 1..Len(rlog) :
        /\ rlog[i] = <<"apply", k>>
        /\ i < Len(rlog)
        /\ rlog[i + 1] = <<"verify", k>>}

ThresholdsOrdered ==
    /\ impThresholds.high > impThresholds.medium
    /\ impThresholds.medium > impThresholds.low

\* C32: for cutoffs high > medium > low the level is high exactly above
\* high, medium exactly above medium up to high, low exactly above low up to
\* medium and insignificant exactly up to low, all on the magnitude of the
\* difference: d and -d get the same level and a larger magnitude never gets
\* a lower level.
ImpactLevelByMagnitude ==
    (ThresholdsOrdered /\ impLevel # "none") =>
        /\ impLevel = "high" <=> Abs(impDiff) > impThresholds.high
        /\ impLevel = "medium" <=>
              /\ Abs(impDiff) > impThresholds.medium
              /\ Abs(impDiff) <= impThresholds.high
        /\ impLevel = "low" <=>
              /\ Abs(impDiff) > impThresholds.low
              /\ Abs(impDiff) <= impThresholds.medium
        /\ impLevel = "insignificant" <=> Abs(impDiff) <= impThresholds.low
        /\ impPrevLevel # "none" =>
              /\ impPrevDiff = 0 - impDiff => impPrevLevel = impLevel
              /\ Abs(impPrevDiff) <= Abs(impDiff) =>
                    ImpactRank(impPrevLevel) <= ImpactRank(impLevel)

ImpactLevelByMagnitude_Witness ==
    /\ impThresholds = [high |-> 12, medium |-> 6, low |-> 2]
    /\ impPrevDiff = 7
    /\ impPrevLevel = "medium"
    /\ impDiff = -7
    /\ impLevel = "medium"

\* C33: the confidence never exceeds 99.9 and an outlier score of larger
\* magnitude never gets a smaller confidence.
ConfidenceMonotoneAndCapped ==
    confValue >= 0 =>
        /\ confValue <= 999
        /\ (confPrevValue >= 0 /\ Abs(confPrevScore) <= Abs(confScore)) =>
              confPrevValue <= confValue

ConfidenceMonotoneAndCapped_Witness ==
    /\ confPrevScore = -50
    /\ confPrevValue = 500
    /\ confScore = 105
    /\ confValue = 999


\* The values of a window, oldest first.
ValuesOf(points) == [i \in 1..Len(points) |-> points[i].value]

\* The window is what is left of the points after dropping some of the oldest.
IsSuffixOf(window, points) ==
    /\ Len(window) <= Len(points)
    /\ \A i \in 1..Len(window) :
          window[i] = points[Len(points) - Len(window) + i]

\* One call of detect_anomalies leaves the window of every metric it was not
\* given as it was, and the window of a metric it was given holds the old
\* points and the new one, less evicted oldest points.
WindowsTouchedByOwnMetricOnly ==
    \A m \in Metrics :
        IF m \in DOMAIN lastMetrics'
        THEN IsSuffixOf(dhistory'[m],
                        Append(dhistory[m],
                               [timestamp |-> dnow', value |-> lastMetrics'[m]]))
        ELSE dhistory'[m] = dhistory[m]

\* C34: an observation of a metric changes the window of that metric only,
\* and the model that decides on a metric is fitted on the values of that
\* metric's own window, whose newest value is the one scored; a metric that
\* was not observed has no anomaly reported.
MetricWindowsIndependent ==
    /\ [][(dcalls' # dcalls) => WindowsTouchedByOwnMetricOnly]_vars
    /\ [](\A m \in Metrics :
            /\ m \in lastChecked =>
                  /\ m \in DOMAIN lastMetrics
                  /\ lastFit[m] = ValuesOf(dhistory[m])
                  /\ lastFit[m][Len(lastFit[m])] = lastMetrics[m]
            /\ m \notin lastChecked =>
                  \A i \in 1..Len(lastAnomalies) :
                      lastAnomalies[i].metric # m)

MetricWindowsIndependent_Witness ==
    /\ DOMAIN lastMetrics = {"cpu_usage"}
    /\ Len(dhistory["error_rate"]) = 2
    /\ dhistory["error_rate"][1].value = 10
    /\ dhistory["error_rate"][2].value = 95
    /\ lastChecked = {"cpu_usage"}
    /\ lastFit["cpu_usage"] = <<10, 10>>
    /\ Len(lastAnomalies) = 0


\* A step of the manage_canary coroutine itself: the event loop resumes it
\* whenever the collaborator call it awaits has returned.
ManageCanaryStep == Next /\ cancelRequested' = cancelRequested

SpecLive == Spec /\ WF_vars(ManageCanaryStep)

\* C35: when every collaborator call returns, a rollout over a finite stage
\* list ends Promoted, RolledBack or Failed.
RolloutTerminates == <>(state \in Terminal)

RolloutTerminates_Witness ==
    /\ nStages = MaxStages
    /\ state = "Promoted"
    /\ pc = "done"
    /\ \A i \in 1..MaxStages : monitorN[i] = 1 /\ decisionN[i] = 1


\* C36: however process_anomalies calls on one AlertManager interleave, the
\* history never holds two alerts of the same metric created less than
\* alert_cooldown seconds apart.
AlertCooldownHolds ==
    \A i, j \in 1..Len(coHistory) :
        (i < j /\ coHistory[i].metric = coHistory[j].metric) =>
            Abs(coHistory[j].timestamp - coHistory[i].timestamp)
                >= AlertCooldown


\* C38: when _can_rollback answers no, handle_rollback returns status failed
\* at once: no plan is prepared, no step applied or checked, no outcome or
\* verification produced and nothing recorded, and nothing happens after
\* the return.
ImpossibleRollbackTouchesNothing ==
    /\ [][(rpc = "can_rollback" /\ rstatus' = "failed") =>
             /\ rpc' = "done"
             /\ UNCHANGED <<stepIdx, stepOutcome, rlog, results,
                            rollback_result, verification>>]_vars
    /\ [][(rpc = "done") => UNCHANGED rvars]_vars
    /\ []((rpc = "done" /\ rstatus = "failed" /\ ~verification.set) =>
             /\ rlog = <<>>
             /\ results = <<>>
             /\ stepIdx = 0
             /\ ~rollback_result.set)

ImpossibleRollbackTouchesNothing_Witness ==
    /\ planLen = MaxSteps
    /\ rpc = "done"
    /\ rstatus = "failed"
    /\ ~verification.set
    /\ rlog = <<>>


\* C37: a rollout is Promoted only after at least one stage was executed and
\* at least one positive Decision was produced, also for an empty stage list.
PromotedNeedsAStage ==
    state = "Promoted" =>
        \E i \in StageIds :
            /\ trafficN[i] >= 1
            /\ monitorN[i] >= 1
            /\ decisionN[i] >= 1
            /\ decision[i] = "pos"

\* C40: _execute_rollback does not report success when it executed no step.
RollbackSuccessNeedsAStep ==
    (rollback_result.set /\ rollback_result.steps_executed = 0) =>
        ~rollback_result.success


\* C39: when a pre-deployment check fails, deploy returns failed at stage
\* pre-deployment in that step: no strategy is selected or executed, nothing
\* is analysed and the deployment history stays as it was.
FailedPreCheckStopsDeploy ==
    [][(/\ gpc = "pre_checks"
        /\ gfault # "pre_checks"
        /\ \E c \in PreChecks : ~gchecks[c]) =>
           /\ gpc' = "idle"
           /\ gresponse'.status = "failed"
           /\ gresponse'.stage = "pre-deployment"
           /\ gresponse'.rollback_status = "none"
           /\ gstrategy' = "none"
           /\ gresult' = FALSE
           /\ deployment_history' = deployment_history]_vars

FailedPreCheckStopsDeploy_Witness ==
    /\ gpc = "idle"
    /\ gcalls = 2
    /\ Len(deployment_history) = 1
    /\ gresponse.status = "failed"
    /\ gresponse.stage = "pre-deployment"
    /\ gstrategy = "none"
    /\ {c \in PreChecks : ~gchecks[c]} = {"dependency_health"}

====
